---- MODULE Spec2Model ----
(***************************************************************************)
(* FlyerMaker: the document / history / effect-stack state machine of      *)
(* src/src/app.ts and the WebGL effect renderer of                         *)
(* src/src/effects/EffectRenderer.ts.                                      *)
(*                                                                         *)
(* Numbers that are floats in the source (parameter values, min, max) are  *)
(* kept exactly as integers in thousandths: 0.58 is 580, 1 is 1000.        *)
(* Opacity is kept in percent.  Pixels are plain integers.                 *)
(***************************************************************************)
EXTENDS Integers, Sequences, FiniteSets, TLC

(***************************************************************************)
(* Bounds of the model.                                                    *)
(***************************************************************************)
\* how many layers are ever imported (each import draws a fresh id)
MaxLayers == 2
\* how many effects one layer's stack holds
MaxEffects == 2
\* length of the effect list handed to EffectRenderer.process
MaxStack == 2
\* how many handled events a session is followed for
MaxOps == 5
\* how many times the targets of the effect renderer are recreated for a new size
MaxResizes == 1
\* how many process() calls that reach the passes are followed
MaxCalls == 2

\* DocumentModel.activeLayerId === null
NoLayer == 0

(***************************************************************************)
(* Small helpers.                                                          *)
(***************************************************************************)
Last(s) == s[Len(s)]

Front(s) == SubSeq(s, 1, Len(s) - 1)

Max2(a, b) == IF a >= b THEN a ELSE b

Min2(a, b) == IF a <= b THEN a ELSE b

Abs(n) == IF n < 0 THEN -n ELSE n

\* Array.prototype.join on an array of strings
RECURSIVE join(_, _)
join(parts, sep) ==
  IF Len(parts) = 0 THEN ""
  ELSE IF Len(parts) = 1 THEN parts[1]
       ELSE parts[1] \o sep \o join(Tail(parts), sep)

\* Array.prototype.splice(index, 1): the array without the element at index
RemoveAt(s, i) == SubSeq(s, 1, i - 1) \o SubSeq(s, i + 1, Len(s))

\* the elements of a list: Object.values / iteration
Range(s) == {s[i] : i \in 1..Len(s)}

\* Array.prototype.splice(index, 0, e): the array with e inserted at index
InsertAt(s, i, e) == SubSeq(s, 1, i - 1) \o <<e>> \o SubSeq(s, i, Len(s))

(***************************************************************************)
(* Effect parameters (src/src/effects/Effect.ts).  A parameter value is a  *)
(* number, a string, a boolean or a colour triple; the record below holds  *)
(* the one its type uses in the field of that kind and neutral values in   *)
(* the others.                                                             *)
(***************************************************************************)
NumV(n) == [n |-> n, s |-> "", c |-> <<>>]

StrV(s) == [n |-> 0, s |-> s, c |-> <<>>]

ColV(c) == [n |-> 0, s |-> "", c |-> c]

EffectParamFloat(key, value, min, max) ==
  [key |-> key, type |-> "float", value |-> NumV(value), min |-> min, max |-> max,
   options |-> <<>>]

EffectParamInt(key, value, min, max) ==
  [key |-> key, type |-> "int", value |-> NumV(value), min |-> min, max |-> max,
   options |-> <<>>]

EffectParamColor(key, value) ==
  [key |-> key, type |-> "color", value |-> ColV(value), min |-> 0, max |-> 0,
   options |-> <<>>]

EffectParamSelect(key, value, options) ==
  [key |-> key, type |-> "select", value |-> StrV(value), min |-> 0, max |-> 0,
   options |-> options]

(***************************************************************************)
(* The effect definitions: id, pass count, params in declaration order     *)
(* (Object.entries order), and for each pass whether its PassConfig sets   *)
(* bindOriginal.                                                           *)
(***************************************************************************)
gaussianBlur ==
  [id |-> "gaussian-blur", passes |-> 2,
   params |-> <<EffectParamFloat("sigma", 4000, 100, 50000)>>]

bloom ==
  [id |-> "bloom", passes |-> 3,
   params |-> <<EffectParamFloat("threshold", 600, 0, 1000),
                EffectParamFloat("radius", 8000, 100, 40000),
                EffectParamFloat("strength", 800, 0, 2000)>>]

vignette ==
  [id |-> "vignette", passes |-> 1,
   params |-> <<EffectParamFloat("centerX", 500, 0, 1000),
                EffectParamFloat("centerY", 500, 0, 1000),
                EffectParamFloat("radius", 750, 0, 2000),
                EffectParamFloat("softness", 450, 0, 1000),
                EffectParamColor("color", <<0, 0, 0>>)>>]

colorGrading ==
  [id |-> "color-grading", passes |-> 1,
   params |-> <<EffectParamFloat("brightness", 1000, 0, 2000),
                EffectParamFloat("contrast", 1000, 0, 2000),
                EffectParamFloat("saturation", 1000, 0, 2000),
                EffectParamFloat("hue", 0, -180000, 180000),
                EffectParamColor("lift", <<0, 0, 0>>),
                EffectParamColor("gamma", <<1000, 1000, 1000>>),
                EffectParamColor("gain", <<1000, 1000, 1000>>)>>]

halation ==
  [id |-> "halation", passes |-> 4,
   params |-> <<EffectParamFloat("threshold", 550, 0, 1000),
                EffectParamFloat("radius", 10000, 100, 48000),
                EffectParamFloat("strength", 650, 0, 2000)>>]

iridescence ==
  [id |-> "iridescence", passes |-> 1,
   params |-> <<EffectParamFloat("amount", 450, 0, 1000),
                EffectParamFloat("hueShift", 80, -1000, 1000),
                EffectParamFloat("edgeBias", 650, 0, 1000),
                EffectParamFloat("satBoost", 1200, 0, 3000),
                EffectParamFloat("softness", 1000, 0, 8000),
                EffectParamFloat("lumaCenter", 620, 0, 1000),
                EffectParamFloat("lumaRange", 300, 50, 1000),
                EffectParamInt("seed", 101000, 0, 9999000)>>]

chromaticAberration ==
  [id |-> "chromatic-aberration", passes |-> 1,
   params |-> <<EffectParamSelect("mode", "radial", <<"radial", "linear">>),
                EffectParamFloat("shift", 2500, 0, 40000),
                EffectParamFloat("angle", 0, -180000, 180000),
                EffectParamFloat("mix", 1000, 0, 1000)>>]

grain ==
  [id |-> "grain", passes |-> 1,
   params |-> <<EffectParamFloat("amount", 80, 0, 600),
                EffectParamFloat("size", 1000, 1000, 8000),
                EffectParamInt("seed", 1000, 0, 9999000),
                EffectParamSelect("mode", "fine-mono",
                   <<"fine-mono", "color-speckle", "soft-chroma", "coarse-film">>)>>]

\* registerAllEffects: the registry in registration order
registerAllEffects ==
  <<gaussianBlur, bloom, vignette, colorGrading, halation, iridescence,
    chromaticAberration, grain>>

\* EffectRegistryImpl.get: the definition, or the empty sequence for undefined
effectRegistryGet(id) ==
  SelectSeq(registerAllEffects, LAMBDA d : d.id = id)

\* bloom.getPassConfig(pass).bindOriginal (absent in every branch)
bloomGetPassConfig(pass) ==
  IF pass = 0 THEN [fragmentShader |-> "BLOOM_EXTRACT_FRAGMENT", bindOriginal |-> FALSE]
  ELSE IF pass = 1 THEN [fragmentShader |-> "BLOOM_BLUR_H_FRAGMENT", bindOriginal |-> FALSE]
  ELSE [fragmentShader |-> "BLOOM_BLUR_V_FRAGMENT", bindOriginal |-> FALSE]

\* halation.getPassConfig(pass)
halationGetPassConfig(pass) ==
  IF pass = 0 THEN [fragmentShader |-> "HALATION_EXTRACT_FRAGMENT", bindOriginal |-> FALSE]
  ELSE IF pass = 1 THEN [fragmentShader |-> "HALATION_BLUR_H_FRAGMENT", bindOriginal |-> FALSE]
  ELSE IF pass = 2 THEN [fragmentShader |-> "HALATION_BLUR_V_FRAGMENT", bindOriginal |-> FALSE]
  ELSE [fragmentShader |-> "HALATION_COMPOSITE_FRAGMENT", bindOriginal |-> TRUE]

\* createLayerEffect: a fresh instance with the definition's default params
createLayerEffect(definition) ==
  [definitionId |-> definition.id,
   enabled |-> TRUE,
   params |-> [i \in 1..Len(definition.params) |->
                 [key |-> definition.params[i].key,
                  type |-> definition.params[i].type,
                  value |-> definition.params[i].value,
                  min |-> definition.params[i].min,
                  max |-> definition.params[i].max,
                  options |-> definition.params[i].options]]]

(***************************************************************************)
(* EffectStack.ts                                                          *)
(***************************************************************************)
\* Number -> its decimal text, as JSON.stringify prints a number
NumberToString(n) ==
  LET a == IF n < 0 THEN -n ELSE n
      ip == a \div 1000
      fp == a % 1000
      d1 == fp \div 100
      d2 == (fp \div 10) % 10
      d3 == fp % 10
      frac == IF fp = 0 THEN ""
              ELSE IF d3 # 0 THEN "." \o ToString(d1) \o ToString(d2) \o ToString(d3)
              ELSE IF d2 # 0 THEN "." \o ToString(d1) \o ToString(d2)
              ELSE "." \o ToString(d1)
  IN  (IF n < 0 THEN "-" ELSE "") \o ToString(ip) \o frac

\* JSON.stringify(p.value), by the parameter's type
JSONstringify(p) ==
  IF p.type = "color"
    THEN "[" \o join([i \in 1..Len(p.value.c) |-> NumberToString(p.value.c[i])], ",") \o "]"
  ELSE IF p.type = "select" THEN "\"" \o p.value.s \o "\""
  ELSE NumberToString(p.value.n)

\* the enabled effects of a stack, in order
EnabledEffects(effects) == SelectSeq(effects, LAMBDA e : e.enabled)

MutParams_EffectKeyPart(e) ==
  e.definitionId \o ":{"
    \o join([i \in 1..Len(e.params) |-> e.params[i].key], ",")
    \o "}"

\* one enabled effect's part of the key
EffectKeyPart(e) ==
  e.definitionId \o ":{"
    \o join([i \in 1..Len(e.params) |-> e.params[i].key \o "=" \o JSONstringify(e.params[i])], ",")
    \o "}"

MutKey_generateCacheKey(layerId, effects) ==
  ToString(layerId) \o "|"
    \o join([i \in 1..Len(effects) |-> EffectKeyPart(effects[i])], "|")

generateCacheKey(layerId, effects) ==
  ToString(layerId) \o "|"
    \o join([i \in 1..Len(EnabledEffects(effects)) |->
               EffectKeyPart(EnabledEffects(effects)[i])], "|")

\* cloneEffectParams: a copy of every param, the colour triple copied too
cloneEffectParams(params) ==
  [i \in 1..Len(params) |->
     [key |-> params[i].key,
      type |-> params[i].type,
      value |-> IF params[i].type = "color"
                  THEN ColV([j \in 1..Len(params[i].value.c) |-> params[i].value.c[j]])
                  ELSE params[i].value,
      min |-> params[i].min,
      max |-> params[i].max,
      options |-> params[i].options]]

\* a copy that builds every instance enabled, as createLayerEffect does
MutEnabled_cloneLayerEffects(effects) ==
  [i \in 1..Len(effects) |->
     [definitionId |-> effects[i].definitionId,
      enabled |-> TRUE,
      params |-> cloneEffectParams(effects[i].params)]]

cloneLayerEffects(effects) ==
  [i \in 1..Len(effects) |->
     [definitionId |-> effects[i].definitionId,
      enabled |-> effects[i].enabled,
      params |-> cloneEffectParams(effects[i].params)]]

(***************************************************************************)
(* Document.ts, Layer.ts                                                   *)
(***************************************************************************)
\* new Layer(name, content, id): the constructor's defaults
Layer(name, content, id) ==
  [id |-> id, name |-> name, visible |-> TRUE, locked |-> FALSE, opacity |-> 100,
   blendMode |-> "source-over", content |-> content, effects |-> <<>>,
   x |-> 0, y |-> 0, width |-> 0, height |-> 0]

LayerIds(d) == {d.layers[i].id : i \in 1..Len(d.layers)}

\* index of the layer with this id, 0 when there is none (findIndex + 1)
LayerIndex(d, id) ==
  IF id \in LayerIds(d) THEN CHOOSE i \in 1..Len(d.layers) : d.layers[i].id = id ELSE 0

\* DocumentModel.activeLayer, as an index into layers (0 for null)
activeLayer(d) == LayerIndex(d, d.activeLayerId)

\* DocumentModel.addLayer
addLayer(d, layer) ==
  [d EXCEPT !.layers = Append(@, layer), !.activeLayerId = layer.id]

MutActive_deleteLayer(d, id) ==
  [d EXCEPT !.layers = SelectSeq(@, LAMBDA l : l.id # id)]

\* a delete of the active layer that selects nothing afterwards
MutNull_deleteLayer(d, id) ==
  [d EXCEPT !.layers = SelectSeq(@, LAMBDA l : l.id # id),
            !.activeLayerId = IF @ = id THEN NoLayer ELSE @]

\* DocumentModel.deleteLayer
deleteLayer(d, id) ==
  LET layers == SelectSeq(d.layers, LAMBDA l : l.id # id)
  IN  [d EXCEPT !.layers = layers,
                !.activeLayerId =
                   IF d.activeLayerId = id
                     THEN (IF Len(layers) > 0 THEN layers[Len(layers)].id ELSE NoLayer)
                     ELSE @]

(***************************************************************************)
(* History.ts: a history is [undoStack, redoStack]; undo and redo give the *)
(* new history and the returned snapshot (<<>> for null).                  *)
(***************************************************************************)
\* a push that keeps the redo stack
MutKeepRedo_HistoryPush(h, entry) ==
  [undoStack |-> Append(h.undoStack, entry), redoStack |-> h.redoStack]

HistoryPush(h, entry) ==
  [undoStack |-> Append(h.undoStack, entry), redoStack |-> <<>>]

canUndo(h) == Len(h.undoStack) > 0

canRedo(h) == Len(h.redoStack) > 0

MutAfter_HistoryUndo(h) ==
  IF Len(h.undoStack) = 0 THEN [history |-> h, result |-> <<>>]
  ELSE [history |-> [undoStack |-> Front(h.undoStack),
                     redoStack |-> Append(h.redoStack, Last(h.undoStack))],
        result |-> <<Last(h.undoStack).after>>]

HistoryUndo(h) ==
  IF Len(h.undoStack) = 0 THEN [history |-> h, result |-> <<>>]
  ELSE [history |-> [undoStack |-> Front(h.undoStack),
                     redoStack |-> Append(h.redoStack, Last(h.undoStack))],
        result |-> <<Last(h.undoStack).before>>]

HistoryRedo(h) ==
  IF Len(h.redoStack) = 0 THEN [history |-> h, result |-> <<>>]
  ELSE [history |-> [undoStack |-> Append(h.undoStack, Last(h.redoStack)),
                     redoStack |-> Front(h.redoStack)],
        result |-> <<Last(h.redoStack).after>>]

(***************************************************************************)
(* app.ts: snapshots                                                       *)
(***************************************************************************)
\* the param of this key (params[key]), as a sequence of zero or one param
ParamByKey(params, key) == SelectSeq(params, LAMBDA p : p.key = key)

\* App.effectsEqual
effectsEqual(a, b) ==
  /\ Len(a) = Len(b)
  /\ \A i \in 1..Len(a) :
       /\ a[i].definitionId = b[i].definitionId
       /\ a[i].enabled = b[i].enabled
       /\ Len(a[i].params) = Len(b[i].params)
       /\ \A k \in 1..Len(a[i].params) :
            LET ap == a[i].params[k]
                bp == ParamByKey(b[i].params, ap.key)
            IN  /\ Len(bp) > 0
                /\ ap.type = bp[1].type
                /\ JSONstringify(ap) = JSONstringify(bp[1])

\* App.contentEqual
contentEqual(a, b) ==
  /\ a.type = b.type
  /\ a.type = "image" /\ b.type = "image"
  /\ a.source = b.source
  /\ a.naturalWidth = b.naturalWidth
  /\ a.naturalHeight = b.naturalHeight
  /\ a.name = b.name

\* App.snapshotsEqual
snapshotsEqual(a, b) ==
  /\ a.width = b.width /\ a.height = b.height /\ a.activeLayerId = b.activeLayerId
  /\ Len(a.layers) = Len(b.layers)
  /\ \A i \in 1..Len(a.layers) :
       LET al == a.layers[i]
           bl == b.layers[i]
       IN  /\ al.id = bl.id
           /\ al.name = bl.name
           /\ al.visible = bl.visible
           /\ al.locked = bl.locked
           /\ al.opacity = bl.opacity
           /\ al.blendMode = bl.blendMode
           /\ al.x = bl.x
           /\ al.y = bl.y
           /\ al.width = bl.width
           /\ al.height = bl.height
           /\ contentEqual(al.content, bl.content)
           /\ effectsEqual(al.effects, bl.effects)

\* { ...layer.content }
CopyContent(c) ==
  [type |-> c.type, source |-> c.source, naturalWidth |-> c.naturalWidth,
   naturalHeight |-> c.naturalHeight, name |-> c.name]

\* App.captureSnapshot
captureSnapshot(d) ==
  [width |-> d.width,
   height |-> d.height,
   activeLayerId |-> d.activeLayerId,
   layers |-> [i \in 1..Len(d.layers) |->
     [id |-> d.layers[i].id,
      name |-> d.layers[i].name,
      visible |-> d.layers[i].visible,
      locked |-> d.layers[i].locked,
      opacity |-> d.layers[i].opacity,
      blendMode |-> d.layers[i].blendMode,
      x |-> d.layers[i].x,
      y |-> d.layers[i].y,
      width |-> d.layers[i].width,
      height |-> d.layers[i].height,
      content |-> CopyContent(d.layers[i].content),
      effects |-> cloneLayerEffects(d.layers[i].effects)]]]

MutActive_restoreSnapshot(d, snapshot) ==
  [width |-> snapshot.width,
   height |-> snapshot.height,
   layers |-> snapshot.layers,
   activeLayerId |-> d.activeLayerId]

\* App.restoreSnapshot: the document after restoring (d is the document before)
restoreSnapshot(d, snapshot) ==
  [width |-> snapshot.width,
   height |-> snapshot.height,
   layers |-> [i \in 1..Len(snapshot.layers) |->
     [Layer(snapshot.layers[i].name, CopyContent(snapshot.layers[i].content),
            snapshot.layers[i].id)
        EXCEPT !.visible = snapshot.layers[i].visible,
               !.locked = snapshot.layers[i].locked,
               !.opacity = snapshot.layers[i].opacity,
               !.blendMode = snapshot.layers[i].blendMode,
               !.x = snapshot.layers[i].x,
               !.y = snapshot.layers[i].y,
               !.width = snapshot.layers[i].width,
               !.height = snapshot.layers[i].height,
               !.effects = cloneLayerEffects(snapshot.layers[i].effects)]],
   activeLayerId |-> snapshot.activeLayerId]

\* a commit that pushes without comparing the two snapshots
MutPush_commitHistoryEntry(h, before, d) ==
  IF before = <<>> THEN h
  ELSE HistoryPush(h, [before |-> before[1], after |-> captureSnapshot(d)])

\* App.commitHistoryEntry(before) with the document d; before is <<>> for null
commitHistoryEntry(h, before, d) ==
  IF before = <<>> THEN h
  ELSE IF snapshotsEqual(before[1], captureSnapshot(d)) THEN h
  ELSE HistoryPush(h, [before |-> before[1], after |-> captureSnapshot(d)])

(***************************************************************************)
(* The per-layer result cache behind EffectRenderer.process(source, w, h,  *)
(* effects, cacheKey), pruneDeletedLayers and the engine it memoizes, as   *)
(* Compositor (src/src/ui/LayersPanel.ts:92-146) calls them.  A cache is a *)
(* set of entries [layer, key, image].                                     *)
(***************************************************************************)
\* the processed image, symbolically: the source and the effects applied to it
EffectEngine(source, effects) ==
  [source |-> source, applied |-> EnabledEffects(effects)]

\* get-or-compute for one layer: the new cache and whether the engine ran
\* a write that stores the fresh result and leaves the layer's stale entry in place
MutKeep_processCached(c, layerId, source, effects, cacheKey) ==
  IF \E e \in c : e.layer = layerId /\ e.key = cacheKey
    THEN [cache |-> c, invoked |-> FALSE]
    ELSE [cache |-> c \cup {[layer |-> layerId, key |-> cacheKey,
                             image |-> EffectEngine(source, effects)]},
          invoked |-> TRUE]

processCached(c, layerId, source, effects, cacheKey) ==
  IF \E e \in c : e.layer = layerId /\ e.key = cacheKey
    THEN [cache |-> c, invoked |-> FALSE]
    ELSE [cache |-> {e \in c : e.layer # layerId}
                      \cup {[layer |-> layerId, key |-> cacheKey,
                             image |-> EffectEngine(source, effects)]},
          invoked |-> TRUE]

\* drop the entries of layers that are no longer in the document
pruneDeletedLayers(c, activeIds) ==
  {e \in c : e.layer \in activeIds}

(***************************************************************************)
(* Compositor (effects version)                                            *)
(***************************************************************************)
\* Compositor.drawContent: acc is [cache, runs, requests, drawn], requests the
\* layers handed to effectRenderer.process, runs those the engine was invoked
\* for, and drawn the layers ctx.drawImage was called for, in call order
drawContent(layer, acc) ==
  IF Len(layer.effects) > 0 /\ \E i \in 1..Len(layer.effects) : layer.effects[i].enabled
    THEN LET r == processCached(acc.cache, layer.id, layer.content.source, layer.effects,
                                generateCacheKey(layer.id, layer.effects))
         IN  [cache |-> r.cache,
              runs |-> IF r.invoked THEN acc.runs \cup {layer.id} ELSE acc.runs,
              requests |-> acc.requests \cup {layer.id},
              drawn |-> Append(acc.drawn, layer.id)]
    ELSE [acc EXCEPT !.drawn = Append(@, layer.id)]

RECURSIVE DrawLayers(_, _)
DrawLayers(layers, acc) ==
  IF layers = <<>> THEN acc
  ELSE DrawLayers(Tail(layers),
                  IF Head(layers).visible THEN drawContent(Head(layers), acc) ELSE acc)

\* Compositor.draw
CompositorDraw(d, c) ==
  DrawLayers(d.layers,
             [cache |-> pruneDeletedLayers(c, LayerIds(d)), runs |-> {}, requests |-> {},
              drawn |-> <<>>])

(***************************************************************************)
(* State                                                                   *)
(***************************************************************************)
VARIABLES
  doc,                  \* App.doc: [width, height, layers, activeLayerId]
  history,              \* App.history: [undoStack, redoStack]
  autoSelect,           \* App.autoSelect
  effectParamBefore,    \* App.effectParamBefore: <<>> (null) or <<snapshot>>
  paramCommitTimer,     \* App.paramCommitTimer: TRUE while a timeout is armed
  dragHistoryBefore,    \* App.dragHistoryBefore: <<>> (null) or <<snapshot>>
  dragMode,             \* App.dragMode: "" (null) or the mode
  dragLayerId,          \* App.dragLayerId
  dragStart,            \* <<dragStartX, dragStartY>>
  dragOrigin,           \* App.dragOrigin: [x, y, width, height]
  nextId,               \* the next fresh layer id (crypto.randomUUID)
  cache,                \* the effect renderer's per-layer result cache
  engineRuns,           \* the layers the engine was invoked for in this step's redraw
  requests,             \* the layers handed to process() in this step's redraw
  drawn,                \* the layers on the canvas, in the order the last draw drew them
  undoneDuringEdit,     \* history: an undo/redo ran since effectParamBefore was taken
  burstUpdates,         \* history: the onUpdateParam calls since the commit timer last fired
  ops                   \* the number of events handled so far in the session

appVars ==
  <<doc, history, autoSelect, effectParamBefore, paramCommitTimer, dragHistoryBefore,
    dragMode, dragLayerId, dragStart, dragOrigin, nextId, cache, engineRuns, requests,
    drawn, undoneDuringEdit, burstUpdates, ops>>

\* EffectRenderer (src/src/effects/EffectRenderer.ts) and one process() call
VARIABLES
  isSupported,          \* EffectRenderer.isSupported()
  frontTex,             \* EffectRenderer.frontTex: a texture id, 0 for null
  backTex,              \* EffectRenderer.backTex
  frontFbo,             \* EffectRenderer.frontFbo: the texture attached to it, 0 for null
  backFbo,              \* EffectRenderer.backFbo
  targetSize,           \* <<EffectRenderer.width, EffectRenderer.height>>
  texData,              \* the content of every texture created so far
  pc,                   \* where the process() call under way stands
  callEffects,          \* process(): its effects argument
  effectIndex,          \* process(): the position of the for loop
  baseTexture,          \* runBloom: const baseTexture
  bloomInput,           \* history: the content of frontTex when runBloom was entered
  bloomWrites,          \* history: the textures the passes of this runBloom wrote
  lastPass,             \* history: the last draw call: [name, target, samples]
  returned,             \* what the last process() call returned
  calls,                \* how many process() calls have reached the passes
  canvas,               \* EffectRenderer.canvas: what the renderer's one canvas shows
  returnedObject,       \* which object the last process() call returned: source or this.canvas
  passLog,              \* history: the draw calls of the latest call's loop, [effect, name]
  earlier               \* history: the result of the call before the latest one

rendererVars ==
  <<isSupported, frontTex, backTex, frontFbo, backFbo, targetSize, texData, pc,
    callEffects, effectIndex, baseTexture, bloomInput, bloomWrites, lastPass, returned,
    calls, canvas, returnedObject, passLog, earlier>>

\* The objects behind an effect list: JavaScript objects and arrays, by identity.
\* An address is a position in its store; nothing is ever freed.
VARIABLES
  arrays,               \* the color triples ([number, number, number] arrays)
  paramObjs,            \* the EffectParam objects; a color param holds an array address
  effectObjs,           \* the LayerEffect objects; params is a list of param addresses
  layerEffects,         \* layer.effects of the active layer: LayerEffect addresses
  stored,               \* the snapshots taken so far, each a list of LayerEffect addresses
  created,              \* history: the LayerEffects createLayerEffect returned
  objectOps             \* how many operations on the objects were followed

objectVars == <<arrays, paramObjs, effectObjs, layerEffects, stored, created, objectOps>>

\* WebGLEffectsPipeline: the single-pass colour pipeline of the compositor
VARIABLES
  gl,                   \* TRUE once ensureContext has built context, program and texture
  pipelineCanvas,       \* <<width, height>> of the pipeline's own canvas
  uploaded,             \* the uniforms of the last draw, <<>> before the first
  applied,              \* what the last apply returned: "none", "source" or "canvas"
  contextFailure        \* history: why the last ensureContext returned null, or "none"

pipelineVars == <<gl, pipelineCanvas, uploaded, applied, contextFailure>>

\* Viewport: zoom and pan as exact fractions <<numerator, denominator>>
VARIABLES
  zoom,                 \* Viewport.zoom
  panX,                 \* Viewport.panX
  panY,                 \* Viewport.panY
  viewportOps           \* how many viewport events were followed

viewportVars == <<zoom, panX, panY, viewportOps>>

\* one pixel channel under a blend mode, in thousandths and millionths
VARIABLES
  blendBase,            \* B, the backdrop channel, in thousandths
  blendTop,             \* T, the layer's channel, in thousandths
  pixelMode,            \* the layer's blend mode, "" before the first pixel
  blendResult           \* the blended channel, in millionths

blendVars == <<blendBase, blendTop, pixelMode, blendResult>>

engineVars == <<pipelineVars, viewportVars, blendVars>>

vars == <<appVars, rendererVars, objectVars, engineVars>>

(***************************************************************************)
(* Inputs the user can give, drawn from small sets.                        *)
(***************************************************************************)
\* the image files offered for import
ImageFiles ==
  {[name |-> "a.png", width |-> 320, height |-> 240]}

\* what is typed into a layer's opacity field, in percent
OpacityInputs == {0, 250}

BlendInputs == {"multiply"}

\* what is typed into #doc-width / #doc-height (0 stands for text that is not a number)
DocSizeInputs == {<<0, 10>>}

\* one transform field edited, the other three as syncTransformPanel left them
TransformInputs == {<<"w", 5>>}

\* canvas points of mouse events: inside the first image, on its south-east
\* handle, on its north-west handle, outside every layer
CanvasPoints == {<<400, 300>>, <<560, 420>>, <<240, 180>>, <<10, 10>>}

\* the definitions chosen in the add-effect dropdown
AddChoices == {"bloom", "grain"}

\* the parameters whose controls are operated
OperatedParams == {"amount", "seed", "mode"}

(***************************************************************************)
(* Init                                                                    *)
(***************************************************************************)
AppInit ==
  /\ doc = [width |-> 800, height |-> 600, layers |-> <<>>, activeLayerId |-> NoLayer]
  /\ history = [undoStack |-> <<>>, redoStack |-> <<>>]
  /\ autoSelect = TRUE
  /\ effectParamBefore = <<>>
  /\ paramCommitTimer = FALSE
  /\ dragHistoryBefore = <<>>
  /\ dragMode = ""
  /\ dragLayerId = NoLayer
  /\ dragStart = <<0, 0>>
  /\ dragOrigin = [x |-> 0, y |-> 0, width |-> 0, height |-> 0]
  /\ nextId = 1
  /\ cache = {}
  /\ engineRuns = {}
  /\ requests = {}
  /\ drawn = <<>>
  /\ undoneDuringEdit = FALSE
  /\ burstUpdates = 0
  /\ ops = 0

\* the definition whose instances are followed as objects
ObjectDefinition == effectRegistryGet("vignette")[1]

\* how many of the first i params are colors
ColorRank(params, i) == Cardinality({j \in 1..i : params[j].type = "color"})

\* the registered definition's own param objects and color arrays
ObjectInit ==
  /\ arrays = [r \in 1..ColorRank(ObjectDefinition.params, Len(ObjectDefinition.params)) |->
                 LET i == CHOOSE i \in 1..Len(ObjectDefinition.params) :
                            /\ ObjectDefinition.params[i].type = "color"
                            /\ ColorRank(ObjectDefinition.params, i) = r
                 IN  ObjectDefinition.params[i].value.c]
  /\ paramObjs = [i \in 1..Len(ObjectDefinition.params) |->
                    LET param == ObjectDefinition.params[i]
                    IN  [key |-> param.key, type |-> param.type,
                         value |-> IF param.type = "color" THEN ColV(<<>>) ELSE param.value,
                         min |-> param.min, max |-> param.max, options |-> param.options,
                         array |-> IF param.type = "color"
                                     THEN ColorRank(ObjectDefinition.params, i) ELSE 0]]
  /\ effectObjs = <<>>
  /\ layerEffects = <<>>
  /\ stored = <<>>
  /\ created = {}
  /\ objectOps = 0

\* the renderer after its constructor: no targets yet
RendererInit ==
  /\ frontTex = 0 /\ backTex = 0 /\ frontFbo = 0 /\ backFbo = 0
  /\ targetSize = <<0, 0>>
  /\ texData = <<>>
  /\ pc = "idle"
  /\ callEffects = <<>>
  /\ effectIndex = 0
  /\ baseTexture = 0
  /\ bloomInput = ""
  /\ bloomWrites = {}
  /\ lastPass = [name |-> "", target |-> 0, samples |-> {}]
  /\ returned = ""
  /\ calls = 0
  /\ canvas = "empty"
  /\ returnedObject = ""
  /\ passLog = <<>>
  /\ earlier = [object |-> "", content |-> ""]

\* new WebGLEffectsPipeline(): a 1x1 canvas, nothing built yet
PipelineInit ==
  /\ gl = FALSE
  /\ pipelineCanvas = <<1, 1>>
  /\ uploaded = <<>>
  /\ applied = "none"
  /\ contextFailure = "none"

\* new Viewport(): zoom = 1, panX = 0, panY = 0
ViewportInit ==
  /\ zoom = <<1, 1>>
  /\ panX = <<0, 1>>
  /\ panY = <<0, 1>>
  /\ viewportOps = 0

BlendInit ==
  /\ blendBase = 0
  /\ blendTop = 0
  /\ pixelMode = ""
  /\ blendResult = 0

EngineInit == PipelineInit /\ ViewportInit /\ BlendInit

Init == AppInit /\ RendererInit /\ ObjectInit /\ EngineInit /\ isSupported = TRUE

(***************************************************************************)
(* refreshUI's redraw, and the handlers' common endings                    *)
(***************************************************************************)
\* events.emit('rerender'): Renderer.render -> Compositor.draw on document d
\* a session is followed for MaxOps handled events
Handled ==
  /\ ops < MaxOps
  /\ ops' = ops + 1
  /\ UNCHANGED rendererVars
  /\ UNCHANGED objectVars
  /\ UNCHANGED engineVars

Rerender(d) ==
  /\ Handled
  /\ cache' = CompositorDraw(d, cache).cache
  /\ engineRuns' = CompositorDraw(d, cache).runs
  /\ requests' = CompositorDraw(d, cache).requests
  /\ drawn' = CompositorDraw(d, cache).drawn

NoRerender ==
  /\ Handled
  /\ cache' = cache
  /\ engineRuns' = {}
  /\ requests' = {}
  /\ drawn' = drawn

\* App.applyDocumentChange(change), d2 the document after change()
applyDocumentChange(d2) ==
  /\ doc' = d2
  /\ history' = commitHistoryEntry(history, <<captureSnapshot(doc)>>, d2)
  /\ Rerender(d2)

\* the panels take mouse input only while no canvas drag is under way
PanelIdle == dragMode = ""

EditFrame ==
  UNCHANGED <<autoSelect, effectParamBefore, paramCommitTimer, dragHistoryBefore,
              dragMode, dragLayerId, dragStart, dragOrigin, undoneDuringEdit, burstUpdates>>

(***************************************************************************)
(* Image import                                                            *)
(***************************************************************************)
\* Math.round(a / b) for a >= 0, b > 0
RoundDiv(a, b) == (2 * a + b) \div (2 * b)

\* round(image.width * scale), round(image.height * scale) with
\* scale = min(doc.width / image.width, doc.height / image.height, 1)
ScaledSize(dw, dh, iw, ih) ==
  IF iw <= dw /\ ih <= dh THEN <<iw, ih>>
  ELSE IF dw * ih <= dh * iw THEN <<RoundDiv(iw * dw, iw), RoundDiv(ih * dw, iw)>>
  ELSE <<RoundDiv(iw * dh, ih), RoundDiv(ih * dh, ih)>>

\* the change importImage applies: the document after it
importImageChange(d, file, id, auto) ==
  LET content == [type |-> "image", source |-> id, naturalWidth |-> file.width,
                  naturalHeight |-> file.height, name |-> file.name]
      previous == d.activeLayerId
      size == ScaledSize(d.width, d.height, file.width, file.height)
      placed == [Layer(file.name, content, id) EXCEPT
                   !.width = size[1],
                   !.height = size[2],
                   !.x = RoundDiv(d.width - size[1], 2),
                   !.y = RoundDiv(d.height - size[2], 2)]
      added == addLayer(d, placed)
  IN  IF ~auto /\ previous # NoLayer
        THEN [added EXCEPT !.activeLayerId = previous]
        ELSE added

\* App.importImage, once the image has loaded
ImportImage ==
  \E file \in ImageFiles :
    /\ nextId <= MaxLayers
    /\ applyDocumentChange(importImageChange(doc, file, nextId, autoSelect))
    /\ nextId' = nextId + 1
    /\ EditFrame

\* #auto-select change
SetAutoSelect ==
  /\ PanelIdle
  /\ autoSelect' = ~autoSelect
  /\ NoRerender
  /\ UNCHANGED <<doc, history, effectParamBefore, paramCommitTimer, dragHistoryBefore,
                 dragMode, dragLayerId, dragStart, dragOrigin, nextId, undoneDuringEdit, burstUpdates>>

(***************************************************************************)
(* LayersPanel callbacks                                                   *)
(***************************************************************************)
onSelectLayer ==
  \E id \in LayerIds(doc) :
    /\ PanelIdle
    /\ doc' = [doc EXCEPT !.activeLayerId = id]
    /\ Rerender(doc')
    /\ UNCHANGED <<history, nextId>>
    /\ EditFrame

onDeleteLayer ==
  \E id \in LayerIds(doc) :
    /\ PanelIdle
    /\ applyDocumentChange(deleteLayer(doc, id))
    /\ UNCHANGED nextId
    /\ EditFrame

onToggleVisibility ==
  \E id \in LayerIds(doc) :
    /\ PanelIdle
    /\ applyDocumentChange(
         [doc EXCEPT !.layers[LayerIndex(doc, id)].visible = ~@])
    /\ UNCHANGED nextId
    /\ EditFrame

\* the opacity field's onchange: Math.min(100, Math.max(0, Number(text) || 0)) / 100
onChangeOpacity ==
  \E id \in LayerIds(doc), typed \in OpacityInputs :
    /\ PanelIdle
    /\ applyDocumentChange(
         [doc EXCEPT !.layers[LayerIndex(doc, id)].opacity = Min2(100, Max2(0, typed))])
    /\ UNCHANGED nextId
    /\ EditFrame

onChangeBlendMode ==
  \E id \in LayerIds(doc), blendMode \in BlendInputs :
    /\ PanelIdle
    /\ applyDocumentChange(
         [doc EXCEPT !.layers[LayerIndex(doc, id)].blendMode = blendMode])
    /\ UNCHANGED nextId
    /\ EditFrame

(***************************************************************************)
(* Document size and transform inputs                                      *)
(***************************************************************************)
\* Math.max(64, Math.min(4096, Number(input.value) || current))
ClampDocSize(typed, current) ==
  Max2(64, Min2(4096, IF typed = 0 THEN current ELSE typed))

applyDocumentSize ==
  \E typed \in DocSizeInputs :
    /\ PanelIdle
    /\ applyDocumentChange(
         [doc EXCEPT !.width = ClampDocSize(typed[1], doc.width),
                     !.height = ClampDocSize(typed[2], doc.height)])
    /\ UNCHANGED nextId
    /\ EditFrame

\* the change of applyTransformInputs, one field typed and the others as shown
applyTransformChange(d, field, typed) ==
  LET i == activeLayer(d)
  IN  IF i = 0 THEN d
      ELSE [d EXCEPT
              !.layers[i].x = IF field = "x" THEN typed ELSE @,
              !.layers[i].y = IF field = "y" THEN typed ELSE @,
              !.layers[i].width = Max2(20, IF field = "w" THEN typed ELSE @),
              !.layers[i].height = Max2(20, IF field = "h" THEN typed ELSE @)]

applyTransformInputs ==
  \E input \in TransformInputs :
    /\ PanelIdle
    /\ applyDocumentChange(applyTransformChange(doc, input[1], input[2]))
    /\ UNCHANGED nextId
    /\ EditFrame

(***************************************************************************)
(* EffectsPanel callbacks.  The panel is rebuilt from the active layer's   *)
(* effects on every rerender, so its controls address that stack.          *)
(***************************************************************************)
ActiveEffects == IF activeLayer(doc) = 0 THEN <<>> ELSE doc.layers[activeLayer(doc)].effects

onAddEffect ==
  \E id \in AddChoices :
    /\ PanelIdle
    /\ activeLayer(doc) # 0
    /\ Len(ActiveEffects) < MaxEffects
    /\ effectRegistryGet(id) # <<>>
    /\ applyDocumentChange(
         [doc EXCEPT !.layers[activeLayer(doc)].effects =
                        Append(@, createLayerEffect(effectRegistryGet(id)[1]))])
    /\ UNCHANGED nextId
    /\ EditFrame

onRemoveEffect ==
  \E index \in 1..Len(ActiveEffects) :
    /\ PanelIdle
    /\ applyDocumentChange(
         [doc EXCEPT !.layers[activeLayer(doc)].effects = RemoveAt(@, index)])
    /\ UNCHANGED nextId
    /\ EditFrame

onToggleEffect ==
  \E index \in 1..Len(ActiveEffects) :
    /\ PanelIdle
    /\ applyDocumentChange(
         [doc EXCEPT !.layers[activeLayer(doc)].effects[index].enabled = ~@])
    /\ UNCHANGED nextId
    /\ EditFrame

\* the up button (index > 0) and the down button (index < length - 1)
onMoveEffect ==
  \E fromIndex \in 1..Len(ActiveEffects), toIndex \in 1..Len(ActiveEffects) :
    /\ PanelIdle
    /\ toIndex = fromIndex - 1 \/ toIndex = fromIndex + 1
    /\ applyDocumentChange(
         [doc EXCEPT !.layers[activeLayer(doc)].effects =
                        InsertAt(RemoveAt(@, fromIndex), toIndex, @[fromIndex])])
    /\ UNCHANGED nextId
    /\ EditFrame

(***************************************************************************)
(* Parameter controls (EffectsPanel.createParamControl) and onUpdateParam  *)
(***************************************************************************)
\* App's onUpdateParam callback
\* a handler that takes the before-snapshot anew on every call
MutRecapture_onUpdateParam(index, k, value) ==
  /\ effectParamBefore' = <<captureSnapshot(doc)>>
  /\ doc' = [doc EXCEPT !.layers[activeLayer(doc)].effects[index].params[k].value = value]
  /\ Rerender(doc')
  /\ paramCommitTimer' = TRUE
  /\ burstUpdates' = burstUpdates + 1
  /\ UNCHANGED <<history, autoSelect, dragHistoryBefore, dragMode, dragLayerId, dragStart,
                 dragOrigin, nextId, undoneDuringEdit>>

onUpdateParam(index, k, value) ==
  /\ effectParamBefore' =
       IF effectParamBefore = <<>> THEN <<captureSnapshot(doc)>> ELSE effectParamBefore
  /\ doc' = [doc EXCEPT !.layers[activeLayer(doc)].effects[index].params[k].value = value]
  /\ Rerender(doc')
  /\ paramCommitTimer' = TRUE
  /\ burstUpdates' = burstUpdates + 1
  /\ UNCHANGED <<history, autoSelect, dragHistoryBefore, dragMode, dragLayerId, dragStart,
                 dragOrigin, nextId, undoneDuringEdit>>

\* parseInt(text, 10) of a number's text: the fraction is cut off
ParseInt(n) == IF n >= 0 THEN (n \div 1000) * 1000 ELSE -(((-n) \div 1000) * 1000)

\* the values a range input can report: the browser keeps them in [min, max]
SliderValues(param) == {param.min}

\* what is typed into the number input: [nan, n], nan for text that is no number
TypedNumbers(param) ==
  { [nan |-> TRUE, n |-> 0],
    [nan |-> FALSE, n |-> param.max + 1500],
    [nan |-> FALSE, n |-> param.min - 1500] }

\* the options a select control offers
SelectChoices(param) == {param.options[i] : i \in 1..Len(param.options)} \ {"soft-chroma", "coarse-film"}

\* the effect index and param position of a control of the operated params
Controls(types) ==
  { c \in (1..Len(ActiveEffects)) \X (1..8) :
      /\ c[2] <= Len(ActiveEffects[c[1]].params)
      /\ ActiveEffects[c[1]].params[c[2]].type \in types
      /\ ActiveEffects[c[1]].params[c[2]].key \in OperatedParams }

\* slider.oninput: the event of a slider moved to another position
SliderInput ==
  \E c \in Controls({"float", "int"}) :
    \E v \in SliderValues(ActiveEffects[c[1]].params[c[2]]) :
      /\ PanelIdle
      /\ NumV(v) # ActiveEffects[c[1]].params[c[2]].value
        /\ onUpdateParam(c[1], c[2],
           NumV(IF ActiveEffects[c[1]].params[c[2]].type = "int" THEN ParseInt(v) ELSE v))

MutClamp_NumInputValue(param, raw) ==
  IF param.type = "int" THEN ParseInt(raw) ELSE raw

\* numInput.onchange: the value handed to onUpdateParam for a typed number
NumInputValue(param, raw) ==
  Min2(param.max, Max2(param.min, IF param.type = "int" THEN ParseInt(raw) ELSE raw))

\* what a param holds once NaN has been assigned to it
NaNV == [n |-> 0, s |-> "NaN", c |-> <<>>]

\* a test that lets every entry through
MutNever_NumberIsNaN(typed) == FALSE

\* numInput.onchange: Number.isNaN(raw), raw the parsed text of the input
NumberIsNaN(typed) == typed.nan

\* numInput.onchange: a non-numeric entry puts the stored value back into the
\* two inputs and returns; Math.min and Math.max hand a NaN through
NumInputChange ==
  \E c \in Controls({"float", "int"}) :
    \E typed \in TypedNumbers(ActiveEffects[c[1]].params[c[2]]) :
      /\ PanelIdle
      /\ IF NumberIsNaN(typed)
           THEN /\ NoRerender
                /\ UNCHANGED <<doc, history, nextId>>
                /\ EditFrame
           ELSE onUpdateParam(c[1], c[2],
                  IF typed.nan
                    THEN NaNV
                    ELSE NumV(NumInputValue(ActiveEffects[c[1]].params[c[2]], typed.n)))

\* sel.onchange: the event of another option being chosen
SelectChange ==
  \E c \in Controls({"select"}) :
    \E option \in SelectChoices(ActiveEffects[c[1]].params[c[2]]) :
      /\ PanelIdle
      /\ StrV(option) # ActiveEffects[c[1]].params[c[2]].value
        /\ onUpdateParam(c[1], c[2], StrV(option))

\* the timeout armed by onUpdateParam fires
ParamCommitTimerFires ==
  /\ paramCommitTimer
  /\ history' = commitHistoryEntry(history, effectParamBefore, doc)
  /\ effectParamBefore' = <<>>
  /\ paramCommitTimer' = FALSE
  /\ undoneDuringEdit' = FALSE
  /\ burstUpdates' = 0
  /\ NoRerender
  /\ UNCHANGED <<doc, autoSelect, dragHistoryBefore, dragMode, dragLayerId, dragStart,
                 dragOrigin, nextId>>

(***************************************************************************)
(* Undo and redo                                                           *)
(***************************************************************************)
\* the common body of App.undo and App.redo, r the result of History.undo/redo
RestoreFrom(r) ==
  IF r.result = <<>>
    THEN UNCHANGED vars
    ELSE /\ doc' = restoreSnapshot(doc, r.result[1])
         /\ history' = r.history
         /\ Rerender(doc')
         /\ undoneDuringEdit' = (undoneDuringEdit \/ effectParamBefore # <<>>)
         /\ UNCHANGED <<autoSelect, effectParamBefore, paramCommitTimer, dragHistoryBefore,
                        dragMode, dragLayerId, dragStart, dragOrigin, nextId, burstUpdates>>

undo == RestoreFrom(HistoryUndo(history))

redo == RestoreFrom(HistoryRedo(history))

(***************************************************************************)
(* Canvas mouse handlers (Move tool)                                       *)
(***************************************************************************)

\* App.hitHandle: the first corner within 8 px, "" for null
hitHandle(layer, x, y) ==
  IF Abs(x - layer.x) <= 8 /\ Abs(y - layer.y) <= 8 THEN "resize-nw"
  ELSE IF Abs(x - (layer.x + layer.width)) <= 8 /\ Abs(y - layer.y) <= 8 THEN "resize-ne"
  ELSE IF Abs(x - layer.x) <= 8 /\ Abs(y - (layer.y + layer.height)) <= 8 THEN "resize-sw"
  ELSE IF Abs(x - (layer.x + layer.width)) <= 8 /\ Abs(y - (layer.y + layer.height)) <= 8
    THEN "resize-se"
  ELSE ""

Contains(layer, x, y) ==
  /\ layer.visible
  /\ x >= layer.x /\ x <= layer.x + layer.width
  /\ y >= layer.y /\ y <= layer.y + layer.height

\* App.findLayerAtPoint: index of the topmost visible layer at the point, 0 for null
findLayerAtPoint(d, x, y) ==
  IF \E i \in 1..Len(d.layers) : Contains(d.layers[i], x, y)
    THEN CHOOSE i \in 1..Len(d.layers) :
           /\ Contains(d.layers[i], x, y)
           /\ \A j \in (i + 1)..Len(d.layers) : ~Contains(d.layers[j], x, y)
    ELSE 0

StartDrag(layer, mode, x, y) ==
  /\ dragHistoryBefore' = <<captureSnapshot(doc)>>
  /\ dragMode' = mode
  /\ dragLayerId' = layer.id
  /\ dragStart' = <<x, y>>
  /\ dragOrigin' = [x |-> layer.x, y |-> layer.y, width |-> layer.width,
                    height |-> layer.height]

\* App.onCanvasDown
onCanvasDown ==
  \E point \in CanvasPoints :
    LET x == point[1]
        y == point[2]
        a == activeLayer(doc)
        hit == findLayerAtPoint(doc, x, y)
    IN  /\ dragMode = ""
            /\ IF a # 0 /\ hitHandle(doc.layers[a], x, y) # ""
             THEN /\ StartDrag(doc.layers[a], hitHandle(doc.layers[a], x, y), x, y)
                  /\ doc' = doc
                  /\ Rerender(doc')
                  /\ UNCHANGED <<history, autoSelect, effectParamBefore, paramCommitTimer,
                                 nextId, undoneDuringEdit, burstUpdates>>
           ELSE IF hit = 0
             THEN UNCHANGED vars
           ELSE /\ StartDrag(doc.layers[hit],
                             IF hitHandle(doc.layers[hit], x, y) # ""
                               THEN hitHandle(doc.layers[hit], x, y) ELSE "move",
                             x, y)
                /\ doc' = [doc EXCEPT !.activeLayerId = doc.layers[hit].id]
                /\ Rerender(doc')
                /\ UNCHANGED <<history, autoSelect, effectParamBefore, paramCommitTimer,
                               nextId, undoneDuringEdit, burstUpdates>>

\* includes() that finds the e and the s of "resize" and no other letter
MutWest_ModeIncludes(mode, letter) ==
  letter \in {"e", "s"} /\ mode \in {"resize-nw", "resize-ne", "resize-sw", "resize-se"}

\* dragMode.includes(letter): every "resize-.." mode holds the e and the s of "resize"
ModeIncludes(mode, letter) ==
  IF letter \in {"e", "s"} THEN mode \in {"resize-nw", "resize-ne", "resize-sw", "resize-se"}
  ELSE IF letter = "w" THEN mode \in {"resize-nw", "resize-sw"}
  ELSE IF letter = "n" THEN mode \in {"resize-nw", "resize-ne"}
  ELSE FALSE

\* the layer after App.onCanvasDrag's assignments, in their order
DraggedLayer(layer, mode, origin, dx, dy) ==
  IF mode = "move"
    THEN [layer EXCEPT !.x = origin.x + dx, !.y = origin.y + dy]
    ELSE
      LET l1 == IF ModeIncludes(mode, "e")
                  THEN [layer EXCEPT !.width = Max2(20, origin.width + dx)] ELSE layer
          l2 == IF ModeIncludes(mode, "s")
                  THEN [l1 EXCEPT !.height = Max2(20, origin.height + dy)] ELSE l1
          nextWidth == Max2(20, origin.width - dx)
          l3 == IF ModeIncludes(mode, "w")
                  THEN [l2 EXCEPT !.x = origin.x + (origin.width - nextWidth),
                                  !.width = nextWidth] ELSE l2
          nextHeight == Max2(20, origin.height - dy)
          l4 == IF ModeIncludes(mode, "n")
                  THEN [l3 EXCEPT !.y = origin.y + (origin.height - nextHeight),
                                  !.height = nextHeight] ELSE l3
      IN  l4

\* App.onCanvasDrag (mousemove while not panning)
onCanvasDrag ==
  \E point \in CanvasPoints :
    /\ dragMode # "" /\ dragLayerId # NoLayer
    /\ LayerIndex(doc, dragLayerId) # 0
    /\ doc' = [doc EXCEPT !.layers[LayerIndex(doc, dragLayerId)] =
                 DraggedLayer(@, dragMode, dragOrigin,
                              point[1] - dragStart[1], point[2] - dragStart[2])]
    /\ Rerender(doc')
    /\ UNCHANGED <<history, nextId>>
    /\ EditFrame

\* window mouseup: App.clearDrag
clearDrag ==
  /\ history' = commitHistoryEntry(history, dragHistoryBefore, doc)
  /\ dragHistoryBefore' = <<>>
  /\ dragMode' = ""
  /\ dragLayerId' = NoLayer
  /\ NoRerender
  /\ UNCHANGED <<doc, autoSelect, effectParamBefore, paramCommitTimer, dragStart,
                 dragOrigin, nextId, undoneDuringEdit, burstUpdates>>

(***************************************************************************)
(* The application                                                         *)
(***************************************************************************)
Next ==
  \/ ImportImage
  \/ SetAutoSelect
  \/ onSelectLayer
  \/ onDeleteLayer
  \/ onToggleVisibility
  \/ onChangeOpacity
  \/ onChangeBlendMode
  \/ applyDocumentSize
  \/ applyTransformInputs
  \/ onAddEffect
  \/ onRemoveEffect
  \/ onToggleEffect
  \/ onMoveEffect
  \/ SliderInput
  \/ NumInputChange
  \/ SelectChange
  \/ ParamCommitTimerFires
  \/ undo
  \/ redo
  \/ onCanvasDown
  \/ onCanvasDrag
  \/ clearDrag

Spec == Init /\ [][Next]_vars

\* a session at the layers panel, the document fields and the canvas
NextDocument ==
  \/ ImportImage
  \/ SetAutoSelect
  \/ onSelectLayer
  \/ onDeleteLayer
  \/ onToggleVisibility
  \/ onChangeOpacity
  \/ onChangeBlendMode
  \/ applyDocumentSize
  \/ applyTransformInputs
  \/ undo
  \/ redo
  \/ onCanvasDown
  \/ onCanvasDrag
  \/ clearDrag

SpecDocument == Init /\ [][NextDocument]_vars

\* a session at the effects panel
NextEffects ==
  \/ ImportImage
  \/ onSelectLayer
  \/ onDeleteLayer
  \/ onAddEffect
  \/ onRemoveEffect
  \/ onToggleEffect
  \/ onMoveEffect
  \/ SliderInput
  \/ NumInputChange
  \/ SelectChange
  \/ ParamCommitTimerFires
  \/ undo
  \/ redo

SpecEffects == Init /\ [][NextEffects]_vars

(***************************************************************************)
(* EffectRenderer.ts: process() and its passes.  A texture's content is    *)
(* written as the term that computed it; a call returns either the source  *)
(* or the content drawn to the renderer's canvas.                          *)
(***************************************************************************)
\* the effect types process() dispatches on
\* the effect types process() has a branch for
KnownTypes == {"gaussian-blur", "bloom", "vignette", "color-grading"}

\* the types of the LayerEffects handed to process(): the known ones and one
\* no branch matches
EffectTypes == KnownTypes \cup {"halation"}

\* the effects arguments of process(): LayerEffect lists, here [type, enabled]
CallStacks ==
  UNION {[1..n -> [type : EffectTypes, enabled : BOOLEAN]] : n \in 0..MaxStack}

\* the width and height arguments of process()
ProcessSizes == {<<320, 240>>, <<64, 64>>, <<0, 240>>}

\* EffectRenderer.ensureTargets followed by the upload of the source into
\* frontTex: the targets and texture contents after both
ensureTargets(size) ==
  IF targetSize = size /\ frontTex # 0 /\ backTex # 0 /\ frontFbo # 0 /\ backFbo # 0
    THEN [frontTex |-> frontTex, backTex |-> backTex, frontFbo |-> frontFbo,
          backFbo |-> backFbo, texData |-> texData]
    ELSE [frontTex |-> Len(texData) + 1, backTex |-> Len(texData) + 2,
          frontFbo |-> Len(texData) + 1, backFbo |-> Len(texData) + 2,
          texData |-> texData \o <<"empty", "empty">>]

\* EffectRenderer.process up to the start of its for loop
process ==
  /\ pc = "idle"
  /\ \E effects \in CallStacks, size \in ProcessSizes :
    /\ IF ~isSupported \/ Len(effects) = 0
         THEN /\ returned' = "source"
              /\ returnedObject' = "source"
              /\ UNCHANGED <<frontTex, backTex, frontFbo, backFbo, targetSize, texData, pc,
                             callEffects, effectIndex, calls, canvas, passLog>>
         ELSE LET t == ensureTargets(size)
              IN  /\ (targetSize = size \/ Len(texData) < 2 * (MaxResizes + 1))
                  /\ calls < MaxCalls
                  /\ calls' = calls + 1
                  /\ frontTex' = t.frontTex
                  /\ backTex' = t.backTex
                  /\ frontFbo' = t.frontFbo
                  /\ backFbo' = t.backFbo
                  /\ targetSize' = size
                  /\ texData' = [t.texData EXCEPT ![t.frontTex] = "source"]
                  /\ pc' = "loop"
                  /\ callEffects' = effects
                  /\ effectIndex' = 1
                  /\ returned' = ""
                  /\ returnedObject' = ""
                  /\ canvas' = (IF t.texData = texData THEN canvas ELSE "empty")
                  /\ passLog' = <<>>
    /\ earlier' = [object |-> returnedObject, content |-> returned]
    /\ UNCHANGED <<isSupported, baseTexture, bloomInput, bloomWrites, lastPass>>
    /\ UNCHANGED <<appVars, objectVars, engineVars>>

\* a draw call into the framebuffer whose texture is target, sampling the
\* textures in samples.  Sampling the texture being rendered to is a feedback
\* loop: the draw is rejected, or the content written is undefined.
drawQuad(name, target, samples, result) ==
  /\ \E outcome \in (IF target \in samples THEN {texData[target], "undefined"}
                                          ELSE {result}) :
       texData' = [texData EXCEPT ![target] = outcome]
  /\ lastPass' = [name |-> name, target |-> target, samples |-> samples]
  /\ passLog' = Append(passLog, [effect |-> effectIndex, name |-> name])

\* EffectRenderer.swapBuffers
swapBuffers ==
  /\ frontTex' = backTex
  /\ backTex' = frontTex
  /\ frontFbo' = backFbo
  /\ backFbo' = frontFbo

Looping == pc = "loop" /\ effectIndex <= Len(callEffects)

RendererFrame ==
  /\ UNCHANGED <<isSupported, targetSize, callEffects, returned, calls, canvas,
                 returnedObject, earlier>>
  /\ UNCHANGED <<appVars, objectVars, engineVars>>

\* a loop that runs a pass for a disabled effect instead of skipping it
MutRuns_SkipDisabled ==
  /\ Looping
  /\ ~callEffects[effectIndex].enabled
  /\ drawQuad(callEffects[effectIndex].type, backFbo, {frontTex},
              callEffects[effectIndex].type \o "(" \o texData[frontTex] \o ")")
  /\ swapBuffers
  /\ effectIndex' = effectIndex + 1
  /\ UNCHANGED <<pc, baseTexture, bloomInput, bloomWrites>>
  /\ RendererFrame

\* a loop that ends at an effect of a type it has no branch for
MutAbort_SkipUnknown ==
  /\ Looping
  /\ callEffects[effectIndex].enabled
  /\ callEffects[effectIndex].type \notin KnownTypes
  /\ effectIndex' = Len(callEffects) + 1
  /\ UNCHANGED <<frontTex, backTex, frontFbo, backFbo, texData, pc, baseTexture, bloomInput,
                 bloomWrites, lastPass, passLog>>
  /\ RendererFrame

\* process(): an enabled effect whose type matches no branch of the if chain
SkipUnknown ==
  /\ Looping
  /\ callEffects[effectIndex].enabled
  /\ callEffects[effectIndex].type \notin KnownTypes
  /\ effectIndex' = effectIndex + 1
  /\ UNCHANGED <<frontTex, backTex, frontFbo, backFbo, texData, pc, baseTexture, bloomInput,
                 bloomWrites, lastPass, passLog>>
  /\ RendererFrame

\* process(): if (!effect.enabled) continue
SkipDisabled ==
  /\ Looping
  /\ ~callEffects[effectIndex].enabled
  /\ effectIndex' = effectIndex + 1
  /\ UNCHANGED <<frontTex, backTex, frontFbo, backFbo, texData, pc, baseTexture, bloomInput,
                 bloomWrites, lastPass, passLog>>
  /\ RendererFrame

\* EffectRenderer.runPass, called for vignette (mode 2) and color-grading (mode 1)
runPass ==
  /\ Looping
  /\ callEffects[effectIndex].enabled
  /\ callEffects[effectIndex].type \in {"vignette", "color-grading"}
  /\ drawQuad(callEffects[effectIndex].type, backFbo, {frontTex},
              callEffects[effectIndex].type \o "(" \o texData[frontTex] \o ")")
  /\ swapBuffers
  /\ effectIndex' = effectIndex + 1
  /\ UNCHANGED <<pc, baseTexture, bloomInput, bloomWrites>>
  /\ RendererFrame

\* EffectRenderer.runBlurPass, its horizontal pass
runBlurPassH(next) ==
  /\ drawQuad("blurH", backFbo, {frontTex}, "blurH(" \o texData[frontTex] \o ")")
  /\ swapBuffers
  /\ pc' = next

\* EffectRenderer.runBlurPass, its vertical pass
runBlurPassV(next) ==
  /\ drawQuad("blurV", backFbo, {frontTex}, "blurV(" \o texData[frontTex] \o ")")
  /\ swapBuffers
  /\ pc' = next

BlurH ==
  /\ Looping
  /\ callEffects[effectIndex].enabled
  /\ callEffects[effectIndex].type = "gaussian-blur"
  /\ runBlurPassH("blurV")
  /\ UNCHANGED <<effectIndex, baseTexture, bloomInput, bloomWrites>>
  /\ RendererFrame

BlurV ==
  /\ pc = "blurV"
  /\ runBlurPassV("loop")
  /\ effectIndex' = effectIndex + 1
  /\ UNCHANGED <<baseTexture, bloomInput, bloomWrites>>
  /\ RendererFrame

\* EffectRenderer.runBloom: const baseTexture = this.frontTex and the extract pass
BloomExtract ==
  /\ Looping
  /\ callEffects[effectIndex].enabled
  /\ callEffects[effectIndex].type = "bloom"
  /\ baseTexture' = frontTex
  /\ bloomInput' = texData[frontTex]
  /\ drawQuad("extract", backFbo, {frontTex}, "extract(" \o texData[frontTex] \o ")")
  /\ bloomWrites' = {backFbo}
  /\ swapBuffers
  /\ pc' = "bloomBlurH"
  /\ UNCHANGED effectIndex
  /\ RendererFrame

\* EffectRenderer.runBloom: this.runBlurPass(radius), horizontal pass
BloomBlurH ==
  /\ pc = "bloomBlurH"
  /\ runBlurPassH("bloomBlurV")
  /\ bloomWrites' = bloomWrites \cup {backFbo}
  /\ UNCHANGED <<effectIndex, baseTexture, bloomInput>>
  /\ RendererFrame

\* EffectRenderer.runBloom: this.runBlurPass(radius), vertical pass
BloomBlurV ==
  /\ pc = "bloomBlurV"
  /\ runBlurPassV("bloomComposite")
  /\ bloomWrites' = bloomWrites \cup {backFbo}
  /\ UNCHANGED <<effectIndex, baseTexture, bloomInput>>
  /\ RendererFrame

\* EffectRenderer.runBloom: the composite pass, uBase = baseTexture (unit 0),
\* uBloom = bloomTexture = this.frontTex (unit 1), drawn into backFbo
BloomComposite ==
  /\ pc = "bloomComposite"
  /\ drawQuad("composite", backFbo, {baseTexture, frontTex},
              "composite(" \o texData[baseTexture] \o "," \o texData[frontTex] \o ")")
  /\ swapBuffers
  /\ pc' = "loop"
  /\ effectIndex' = effectIndex + 1
  /\ baseTexture' = 0
  /\ bloomInput' = ""
  /\ bloomWrites' = {}
  /\ RendererFrame

\* process() after its loop: drawTextureToScreen(frontTex), return this.canvas
ProcessReturn ==
  /\ pc = "loop"
  /\ effectIndex > Len(callEffects)
  /\ lastPass' = [name |-> "screen", target |-> 0, samples |-> {frontTex}]
  /\ canvas' = texData[frontTex]
  /\ returned' = texData[frontTex]
  /\ returnedObject' = "canvas"
  /\ pc' = "idle"
  /\ UNCHANGED <<isSupported, frontTex, backTex, frontFbo, backFbo, targetSize, texData,
                 callEffects, effectIndex, baseTexture, bloomInput, bloomWrites, calls,
                 passLog, earlier>>
  /\ UNCHANGED <<appVars, objectVars, engineVars>>

NextRenderer ==
  \/ process
  \/ SkipDisabled
  \/ SkipUnknown
  \/ runPass
  \/ BlurH
  \/ BlurV
  \/ BloomExtract
  \/ BloomBlurH
  \/ BloomBlurV
  \/ BloomComposite
  \/ ProcessReturn

InitRenderer == AppInit /\ RendererInit /\ ObjectInit /\ EngineInit /\ isSupported \in BOOLEAN

SpecRenderer == InitRenderer /\ [][NextRenderer]_vars

\* one process() call on a fresh renderer, followed from its entry to its return
NextProcessCall ==
  \/ (calls = 0 /\ process)
  \/ SkipDisabled
  \/ SkipUnknown
  \/ runPass
  \/ BlurH
  \/ BlurV
  \/ BloomExtract
  \/ BloomBlurH
  \/ BloomBlurV
  \/ BloomComposite
  \/ ProcessReturn

SpecProcessCall == InitRenderer /\ [][NextProcessCall]_vars

(***************************************************************************)
(* Effect lists as objects: which LayerEffect, EffectParam and color array *)
(* a copy creates and which it shares.  A store h is [arrays, paramObjs,   *)
(* effectObjs]; the copying operators return the store after their         *)
(* allocations together with the addresses of what they built.             *)
(***************************************************************************)
MaxObjectOps == 5
MaxSnapshots == 2

Store == [arrays |-> arrays, paramObjs |-> paramObjs, effectObjs |-> effectObjs]

\* the definition's params: Object.entries(definition.params)
DefinitionParams == [i \in 1..Len(ObjectDefinition.params) |-> i]

\* a param copied with its color array shared: { ...param }
MutShare_createParamObject(h, addr) ==
  [h |-> [h EXCEPT !.paramObjs = Append(@, h.paramObjs[addr])],
   addr |-> Len(h.paramObjs) + 1]

\* createLayerEffect, one entry:
\* { ...param, value: param.type === 'color' ? [...param.value] : param.value }
createParamObject(h, addr) ==
  LET param == h.paramObjs[addr]
      h1 == IF param.type = "color"
              THEN [h EXCEPT !.arrays = Append(@, h.arrays[param.array])]
              ELSE h
  IN  [h |-> [h1 EXCEPT !.paramObjs =
                 Append(@, IF param.type = "color"
                             THEN [param EXCEPT !.array = Len(h1.arrays)]
                             ELSE param)],
       addr |-> Len(h.paramObjs) + 1]

\* createLayerEffect: the loop over the definition's params
RECURSIVE createParamObjects(_, _, _)
createParamObjects(h, addrs, done) ==
  IF addrs = <<>> THEN [h |-> h, addrs |-> done]
  ELSE LET r == createParamObject(h, Head(addrs))
       IN  createParamObjects(r.h, Tail(addrs), Append(done, r.addr))

\* createLayerEffect(definition): the new LayerEffect object
createLayerEffectObject(h) ==
  LET r == createParamObjects(h, DefinitionParams, <<>>)
  IN  [h |-> [r.h EXCEPT !.effectObjs =
                 Append(@, [definitionId |-> ObjectDefinition.id, enabled |-> TRUE,
                            params |-> r.addrs])],
       addr |-> Len(h.effectObjs) + 1]

\* a clone that puts the param object itself into the result
MutShare_cloneParamObject(h, addr) ==
  [h |-> h, addr |-> addr]

\* cloneEffectParams, one entry: { ...param, value: [...param.value] } for a
\* color, { ...param } otherwise
cloneParamObject(h, addr) ==
  LET param == h.paramObjs[addr]
      h1 == IF param.type = "color"
              THEN [h EXCEPT !.arrays = Append(@, h.arrays[param.array])]
              ELSE h
  IN  [h |-> [h1 EXCEPT !.paramObjs =
                 Append(@, IF param.type = "color"
                             THEN [param EXCEPT !.array = Len(h1.arrays)]
                             ELSE param)],
       addr |-> Len(h.paramObjs) + 1]

\* cloneEffectParams
RECURSIVE cloneEffectParamsObjects(_, _, _)
cloneEffectParamsObjects(h, addrs, done) ==
  IF addrs = <<>> THEN [h |-> h, addrs |-> done]
  ELSE LET r == cloneParamObject(h, Head(addrs))
       IN  cloneEffectParamsObjects(r.h, Tail(addrs), Append(done, r.addr))

\* cloneLayerEffects: a new list of new LayerEffect objects
RECURSIVE cloneLayerEffectsObjects(_, _, _)
cloneLayerEffectsObjects(h, effects, done) ==
  IF effects = <<>> THEN [h |-> h, addrs |-> done]
  ELSE LET e == h.effectObjs[Head(effects)]
           r == cloneEffectParamsObjects(h, e.params, <<>>)
           h2 == [r.h EXCEPT !.effectObjs =
                    Append(@, [definitionId |-> e.definitionId, enabled |-> e.enabled,
                               params |-> r.addrs])]
       IN  cloneLayerEffectsObjects(h2, Tail(effects), Append(done, Len(h2.effectObjs)))

\* what a param object holds, read through its array
ParamValue(h, addr) ==
  LET param == h.paramObjs[addr]
  IN  [key |-> param.key, type |-> param.type,
       value |-> IF param.type = "color" THEN ColV(h.arrays[param.array]) ELSE param.value,
       min |-> param.min, max |-> param.max, options |-> param.options]

\* what a LayerEffect object holds, read through its params
EffectValue(h, addr) ==
  LET e == h.effectObjs[addr]
  IN  [definitionId |-> e.definitionId, enabled |-> e.enabled,
       params |-> [i \in 1..Len(e.params) |-> ParamValue(h, e.params[i])]]

EffectsValue(h, effects) == [i \in 1..Len(effects) |-> EffectValue(h, effects[i])]

ObjectStep ==
  /\ objectOps < MaxObjectOps
  /\ objectOps' = objectOps + 1
  /\ UNCHANGED <<appVars, rendererVars, engineVars>>

SetStore(h) ==
  /\ arrays' = h.arrays
  /\ paramObjs' = h.paramObjs
  /\ effectObjs' = h.effectObjs

\* EffectsPanel's add-effect select and App's onAddEffect:
\* layer.effects.push(createLayerEffect(def))
AddEffectObject ==
  LET r == createLayerEffectObject(Store)
  IN  /\ Len(layerEffects) < MaxEffects
      /\ SetStore(r.h)
      /\ layerEffects' = Append(layerEffects, r.addr)
      /\ created' = created \cup {r.addr}
      /\ UNCHANGED stored
      /\ ObjectStep

\* onRemoveEffect: layer.effects.splice(index, 1)
RemoveEffectObject ==
  \E index \in 1..Len(layerEffects) :
    /\ layerEffects' = RemoveAt(layerEffects, index)
    /\ UNCHANGED <<arrays, paramObjs, effectObjs, stored, created>>
    /\ ObjectStep

\* onToggleEffect: layer.effects[index].enabled = !layer.effects[index].enabled
ToggleEffectObject ==
  \E index \in 1..Len(layerEffects) :
    /\ effectObjs' = [effectObjs EXCEPT ![layerEffects[index]].enabled = ~@]
    /\ UNCHANGED <<arrays, paramObjs, layerEffects, stored, created>>
    /\ ObjectStep

\* onMoveEffect: splice(fromIndex, 1) and splice(toIndex, 0, moved)
MoveEffectObject ==
  /\ Len(layerEffects) >= 2
  /\ layerEffects' = InsertAt(RemoveAt(layerEffects, 1), 2, layerEffects[1])
  /\ UNCHANGED <<arrays, paramObjs, effectObjs, stored, created>>
  /\ ObjectStep

\* the values the controls hand to onUpdateParam: a radius, and the fresh
\* triple hexToRgb builds for "#ff0000"
ObjectUpdates == {[key |-> "radius", value |-> NumV(1000)],
                  [key |-> "color", value |-> ColV(<<1000, 0, 0>>)]}

\* onUpdateParam: param.value = value on the live param object
UpdateParamObject ==
  \E index \in 1..Len(layerEffects), u \in ObjectUpdates :
    LET addr == CHOOSE a \in Range(effectObjs[layerEffects[index]].params) :
                  paramObjs[a].key = u.key
    IN  /\ IF paramObjs[addr].type = "color"
             THEN /\ arrays' = Append(arrays, u.value.c)
                  /\ paramObjs' = [paramObjs EXCEPT ![addr].array = Len(arrays) + 1]
             ELSE /\ paramObjs' = [paramObjs EXCEPT ![addr].value = u.value]
                  /\ UNCHANGED arrays
        /\ UNCHANGED <<effectObjs, layerEffects, stored, created>>
        /\ ObjectStep

\* an element of a live color triple is assigned: param.value[0] = 0.5
WriteColorElement ==
  \E index \in 1..Len(layerEffects) :
    \E a \in Range(effectObjs[layerEffects[index]].params) :
      /\ paramObjs[a].type = "color"
      /\ arrays[paramObjs[a].array][1] # 500
      /\ arrays' = [arrays EXCEPT ![paramObjs[a].array][1] = 500]
      /\ UNCHANGED <<paramObjs, effectObjs, layerEffects, stored, created>>
      /\ ObjectStep

\* App.captureSnapshot: effects: cloneLayerEffects(layer.effects), kept as the
\* before or after of a history entry
CaptureObjects ==
  LET r == cloneLayerEffectsObjects(Store, layerEffects, <<>>)
  IN  /\ Len(stored) < MaxSnapshots
      /\ layerEffects # <<>>
      /\ SetStore(r.h)
      /\ stored' = Append(stored, r.addrs)
      /\ UNCHANGED <<layerEffects, created>>
      /\ ObjectStep

\* App.restoreSnapshot on undo or redo: next.effects = cloneLayerEffects(layer.effects)
RestoreObjects ==
  \E n \in 1..Len(stored) :
    LET r == cloneLayerEffectsObjects(Store, stored[n], <<>>)
    IN  /\ SetStore(r.h)
        /\ layerEffects' = r.addrs
        /\ UNCHANGED <<stored, created>>
        /\ ObjectStep

NextObjects ==
  \/ AddEffectObject
  \/ RemoveEffectObject
  \/ ToggleEffectObject
  \/ MoveEffectObject
  \/ UpdateParamObject
  \/ WriteColorElement
  \/ CaptureObjects
  \/ RestoreObjects

SpecObjects == Init /\ [][NextObjects]_vars

(***************************************************************************)
(* WebGLEffectsPipeline: exposure, brightness, contrast, saturation, hue   *)
(***************************************************************************)
MaxPipelineEffects == 2

UniformTypes == <<"exposure", "brightness", "contrast", "saturation", "hue">>

\* a LayerEffect of the pipeline: { type, enabled, value }
PipelineEffects ==
  [type : Range(UniformTypes), enabled : BOOLEAN, value : {0, 10, 20}]

PipelineStacks ==
  UNION {[1..n -> PipelineEffects] : n \in 0..MaxPipelineEffects}

\* what the browser does when the context is built
ContextOutcomes == {"built", "context", "compile", "link", "buffer"}

PipelineSizes == {<<320, 240>>, <<64, 64>>}

\* getValue: the first effect of the type, 0 when missing or disabled
readUniforms(effects) ==
  LET getValue(type) ==
        LET found == SelectSeq(effects, LAMBDA entry : entry.type = type)
        IN IF found = <<>> \/ ~found[1].enabled THEN 0 ELSE found[1].value
  IN [i \in 1..Len(UniformTypes) |-> getValue(UniformTypes[i])]

hasActiveEffect(uniforms) ==
  \E i \in 1..Len(uniforms) : uniforms[i] # 0

\* ensureContext: the built context is reused; otherwise every failing step
\* returns null and leaves gl, program and texture unset
ensureContext(outcome) ==
  IF gl THEN [gl |-> TRUE, failure |-> "none"]
  ELSE IF outcome = "built" THEN [gl |-> TRUE, failure |-> "none"]
  ELSE [gl |-> FALSE, failure |-> outcome]

\* apply(source, width, height, effects)
apply ==
  \E effects \in PipelineStacks, size \in PipelineSizes,
     outcome \in ContextOutcomes :
    LET uniforms == readUniforms(effects)
        context == ensureContext(outcome)
    IN /\ IF ~hasActiveEffect(uniforms)
          THEN /\ applied' = "source"
               /\ contextFailure' = "none"
               /\ UNCHANGED <<gl, pipelineCanvas, uploaded>>
          ELSE IF ~context.gl
          THEN /\ applied' = "source"
               /\ contextFailure' = context.failure
               /\ UNCHANGED <<gl, pipelineCanvas, uploaded>>
          ELSE /\ gl' = TRUE
               /\ contextFailure' = "none"
               /\ pipelineCanvas' = size
               /\ uploaded' = uniforms
               /\ applied' = "canvas"
       /\ UNCHANGED <<appVars, rendererVars, objectVars, viewportVars, blendVars>>

NextPipeline == apply

SpecPipeline == Init /\ [][NextPipeline]_vars

(***************************************************************************)
(* Blend modes, channel-wise: B and T in thousandths, the result in        *)
(* millionths, so that every product is exact                              *)
(***************************************************************************)
ChannelValues == {0, 250, 500, 750, 1000}

\* the globalCompositeOperation names of Normal, Multiply, Screen, Overlay, Difference
PixelModes == {"source-over", "multiply", "screen", "overlay", "difference"}

\* every mode answers with the top channel
MutNormal_Blend(mode, B, T) == T * 1000

Blend(mode, B, T) ==
  CASE mode = "source-over" -> T * 1000
    [] mode = "multiply" -> B * T
    [] mode = "screen" -> 1000000 - (1000 - B) * (1000 - T)
    [] mode = "overlay" -> IF B <= 500 THEN 2 * B * T
                           ELSE 1000000 - 2 * (1000 - B) * (1000 - T)
    [] mode = "difference" -> IF B >= T THEN (B - T) * 1000 ELSE (T - B) * 1000

\* one channel of one pixel is blended
BlendPixel ==
  \E B \in ChannelValues, T \in ChannelValues, mode \in PixelModes :
    /\ blendBase' = B
    /\ blendTop' = T
    /\ pixelMode' = mode
    /\ blendResult' = Blend(mode, B, T)
    /\ UNCHANGED <<appVars, rendererVars, objectVars, pipelineVars, viewportVars>>

NextBlend == BlendPixel

SpecBlend == Init /\ [][NextBlend]_vars

(***************************************************************************)
(* Viewport (src/unnamed/part_000) and the zoom controls of App.  A number *)
(* is an exact fraction <<n, d>> in lowest terms with d > 0.               *)
(***************************************************************************)
MaxViewportOps == 1

RECURSIVE Gcd(_, _)
Gcd(a, b) == IF b = 0 THEN a ELSE Gcd(b, a % b)

Frac(n, d) ==
  LET g == Gcd(Abs(n), d)
  IN IF n = 0 THEN <<0, 1>> ELSE <<n \div g, d \div g>>

Whole(n) == <<n, 1>>
\* sums over the least common denominator and products after cancelling, which
\* keeps the intermediate values as small as the operands and the result allow
FracAdd(a, b) ==
  LET g == Gcd(a[2], b[2])
  IN Frac(a[1] * (b[2] \div g) + b[1] * (a[2] \div g), (a[2] \div g) * b[2])
FracSub(a, b) == FracAdd(a, <<-b[1], b[2]>>)
FracMul(a, b) ==
  LET g1 == Gcd(Abs(a[1]), b[2])
      g2 == Gcd(Abs(b[1]), a[2])
  IN IF a[1] = 0 \/ b[1] = 0 THEN <<0, 1>>
     ELSE Frac((a[1] \div g1) * (b[1] \div g2), (a[2] \div g2) * (b[2] \div g1))
FracDiv(a, b) ==
  IF b[1] > 0 THEN FracMul(a, <<b[2], b[1]>>) ELSE FracMul(a, <<-b[2], -b[1]>>)
FracLess(a, b) == a[1] * b[2] < b[1] * a[2]
FracMin(a, b) == IF FracLess(b, a) THEN b ELSE a
FracMax(a, b) == IF FracLess(a, b) THEN b ELSE a

\* Number(x.toFixed(2)) for x > 0: the nearest hundredth, the larger on a tie
toFixed2(x) == Frac((200 * x[1] + x[2]) \div (2 * x[2]), 100)

\* the zoom step of the buttons and the wheel, 0.05
ZoomStep == Frac(5, 100)

\* the canvas area on screen: rect.width, rect.height
AreaSize == <<1000, 700>>

\* where the wheel is turned, relative to the canvas area
WheelPoints == {<<200, 100>>}

\* mouse moves of a Hand-tool drag: (dx, dy)
PanMoves == {<<30, -20>>}

\* a nextZoom that is rounded and not clamped
MutUnclamped_nextZoom(previousZoom, delta) == toFixed2(FracAdd(previousZoom, delta))

\* Math.min(4, Math.max(0.2, Number((previousZoom + delta).toFixed(2))))
nextZoom(previousZoom, delta) ==
  FracMin(Whole(4), FracMax(Frac(2, 10), toFixed2(FracAdd(previousZoom, delta))))

\* Viewport.zoomBy: the viewport [zoom, panX, panY] it leaves
zoomBy(delta, centerX, centerY, viewportWidth, viewportHeight, documentWidth, documentHeight) ==
  LET previousZoom == zoom
      next == nextZoom(previousZoom, delta)
      half == Frac(1, 2)
      baseXBefore == FracMul(FracSub(Whole(viewportWidth),
                                     FracMul(Whole(documentWidth), previousZoom)), half)
      baseYBefore == FracMul(FracSub(Whole(viewportHeight),
                                     FracMul(Whole(documentHeight), previousZoom)), half)
      worldX == FracDiv(FracSub(FracSub(centerX, baseXBefore), panX), previousZoom)
      worldY == FracDiv(FracSub(FracSub(centerY, baseYBefore), panY), previousZoom)
      baseXAfter == FracMul(FracSub(Whole(viewportWidth),
                                    FracMul(Whole(documentWidth), next)), half)
      baseYAfter == FracMul(FracSub(Whole(viewportHeight),
                                    FracMul(Whole(documentHeight), next)), half)
  IN IF next = previousZoom
       THEN [zoom |-> zoom, panX |-> panX, panY |-> panY]
       ELSE [zoom |-> next,
             panX |-> FracSub(FracSub(centerX, baseXAfter), FracMul(worldX, next)),
             panY |-> FracSub(FracSub(centerY, baseYAfter), FracMul(worldY, next))]

ViewportFrame == UNCHANGED <<appVars, rendererVars, objectVars, pipelineVars, blendVars>>

\* App.applyZoom(delta, clientX?, clientY?): #zoom-in, #zoom-out and the wheel
applyZoom(delta, center) ==
  LET v == zoomBy(delta, center[1], center[2], AreaSize[1], AreaSize[2],
                  doc.width, doc.height)
  IN /\ zoom' = v.zoom
     /\ panX' = v.panX
     /\ panY' = v.panY
     /\ ViewportFrame

AreaCenter == <<Frac(AreaSize[1], 2), Frac(AreaSize[2], 2)>>

ZoomIn == applyZoom(ZoomStep, AreaCenter) /\ UNCHANGED viewportOps

ZoomOut == applyZoom(FracSub(Whole(0), ZoomStep), AreaCenter) /\ UNCHANGED viewportOps

\* the wheel over the canvas: deltaY < 0 zooms in, else out, about the pointer
Wheel ==
  \E point \in WheelPoints, delta \in {ZoomStep, FracSub(Whole(0), ZoomStep)} :
    /\ viewportOps < MaxViewportOps
    /\ viewportOps' = viewportOps + 1
    /\ applyZoom(delta, <<Whole(point[1]), Whole(point[2])>>)

\* Viewport.panBy, from a mouse move while panning
panBy ==
  \E move \in PanMoves :
    /\ viewportOps < MaxViewportOps
    /\ viewportOps' = viewportOps + 1
    /\ panX' = FracAdd(panX, Whole(move[1]))
    /\ panY' = FracAdd(panY, Whole(move[2]))
    /\ UNCHANGED zoom
    /\ ViewportFrame

\* the menu's zoom-100
ZoomReset ==
  /\ zoom' = Whole(1)
  /\ panX' = Whole(0)
  /\ panY' = Whole(0)
  /\ UNCHANGED viewportOps
  /\ ViewportFrame

NextViewport ==
  \/ ZoomIn
  \/ ZoomOut
  \/ Wheel
  \/ panBy
  \/ ZoomReset

SpecViewport == Init /\ [][NextViewport]_vars

(***************************************************************************)
(* Properties of the application                                           *)
(***************************************************************************)
\* every effect stack held in the state: those of the document's layers, of
\* the snapshots in the history and of the pending before-snapshots
SnapshotsInState ==
  {history.undoStack[i].before : i \in 1..Len(history.undoStack)}
    \cup {history.undoStack[i].after : i \in 1..Len(history.undoStack)}
    \cup {history.redoStack[i].before : i \in 1..Len(history.redoStack)}
    \cup {history.redoStack[i].after : i \in 1..Len(history.redoStack)}
    \cup {effectParamBefore[i] : i \in 1..Len(effectParamBefore)}
    \cup {dragHistoryBefore[i] : i \in 1..Len(dragHistoryBefore)}

StacksInState ==
  {doc.layers[i].effects : i \in 1..Len(doc.layers)}
    \cup UNION {{sn.layers[i].effects : i \in 1..Len(sn.layers)} : sn \in SnapshotsInState}

\* C1: when the Bloom composite pass is about to run, the texture it reads as
\* uBase was not the write target of an earlier pass of this Bloom run and
\* still holds the content the effect was given.
C1_BaseNotOverwritten ==
  pc = "bloomComposite" =>
    (baseTexture \notin bloomWrites /\ texData[baseTexture] = bloomInput)

\* C2: no draw call renders into the texture it samples.
C2_NoReadWriteSameBuffer == lastPass.target \notin lastPass.samples

\* the content a stack should produce from content c: every enabled effect
\* applied in order, Bloom adding its blurred highlights onto its own input
RECURSIVE IdealOutput(_, _)
IdealOutput(effects, c) ==
  IF effects = <<>> THEN c
  ELSE IF ~Head(effects).enabled THEN IdealOutput(Tail(effects), c)
  ELSE IF Head(effects).type = "gaussian-blur"
    THEN IdealOutput(Tail(effects), "blurV(blurH(" \o c \o "))")
  ELSE IF Head(effects).type = "bloom"
    THEN IdealOutput(Tail(effects),
                     "composite(" \o c \o ",blurV(blurH(extract(" \o c \o "))))")
  ELSE IF Head(effects).type \in {"vignette", "color-grading"}
    THEN IdealOutput(Tail(effects), Head(effects).type \o "(" \o c \o ")")
  ELSE IdealOutput(Tail(effects), c)

\* C3: when enabled effects precede Bloom, the base of Bloom's composite pass
\* is the output of those effects, not the raw source.
C3_BaseIsUpstreamOutput ==
  (pc = "bloomComposite" /\ \E i \in 1..(effectIndex - 1) : callEffects[i].enabled) =>
    /\ texData[baseTexture] = IdealOutput(SubSeq(callEffects, 1, effectIndex - 1), "source")
    /\ texData[baseTexture] # "source"

\* C4: the registered Bloom definition is a four-stage effect whose last pass
\* requests the pre-effect original (bindOriginal), as Halation's last pass
\* does; here for every Bloom instance a layer holds.
C4_BloomFourStage ==
  \A i \in 1..Len(doc.layers) : \A k \in 1..Len(doc.layers[i].effects) :
    doc.layers[i].effects[k].definitionId = "bloom" =>
      /\ effectRegistryGet("bloom")[1].passes = 4
      /\ bloomGetPassConfig(effectRegistryGet("bloom")[1].passes - 1).bindOriginal
      /\ effectRegistryGet("halation")[1].passes = 4
      /\ halationGetPassConfig(effectRegistryGet("halation")[1].passes - 1).bindOriginal

\* C5: when the param commit timer fires after an undo or redo ran during the
\* pending edit, it pushes no entry and leaves the redo stack as it was.
C5_NoStaleCommit ==
  [][(paramCommitTimer /\ ~paramCommitTimer' /\ undoneDuringEdit) => history' = history]_vars

\* the effects of the layer with this id in document d
EffectsOf(d, id) == d.layers[LayerIndex(d, id)].effects

\* C6: a redraw that asks for a layer whose cached image was computed from the
\* same enabled effect stack does not run the engine and keeps the cached
\* image; the engine runs only when the layer has no entry or its cached key
\* differs from the current key.
C6_CacheHit ==
  [][\A id \in requests' :
       /\ (\E e \in cache : /\ e.layer = id
                             /\ e.image.applied = EnabledEffects(EffectsOf(doc', id)))
            => (/\ id \notin engineRuns'
                /\ {e \in cache' : e.layer = id} = {e \in cache : e.layer = id})
       /\ id \in engineRuns'
            => \A e \in cache :
                 e.layer = id => e.key # generateCacheKey(id, EffectsOf(doc', id))]_vars

C6_Witness == \E id \in requests : id \notin engineRuns

\* two effect sequences agree in definition id, order, param keys and values
SameEffects(ea, eb) ==
  /\ Len(ea) = Len(eb)
  /\ \A i \in 1..Len(ea) :
       /\ ea[i].definitionId = eb[i].definitionId
       /\ Len(ea[i].params) = Len(eb[i].params)
       /\ \A k \in 1..Len(ea[i].params) :
            /\ ea[i].params[k].key = eb[i].params[k].key
            /\ ea[i].params[k].value = eb[i].params[k].value

\* C7: for a fixed layer id two effect stacks get the same cache key if and
\* only if their enabled subsequences are equal in definition id, order and
\* every param key and value; disabled effects never change the key.
C7_KeyIffEnabledEqual ==
  LET stacks == StacksInState
      enabled == [a \in stacks |-> SelectSeq(a, LAMBDA e : e.enabled)]
  IN  \A id \in LayerIds(doc) \cup {nextId} :
        LET key == [a \in stacks |-> generateCacheKey(id, a)]
        IN  \A a \in stacks, b \in stacks :
              (key[a] = key[b]) <=> SameEffects(enabled[a], enabled[b])

C7_Witness ==
  \E a \in StacksInState, b \in StacksInState :
    /\ a # b
    /\ EnabledEffects(a) # <<>>
    /\ Len(a) # Len(EnabledEffects(a))
    /\ generateCacheKey(1, a) = generateCacheKey(1, b)

\* C8: a step that commits an edit records the document after it (and, for an
\* edit applied in that step, the document before it); undo restores the
\* before-state of the last committed edit and keeps the entry for redo;
\* redo restores that entry's after-state.
C8_UndoRedoRestores ==
  [][/\ Len(history'.undoStack) = Len(history.undoStack) + 1
          => /\ Last(history'.undoStack).after = captureSnapshot(doc')
             /\ (doc' # doc /\ history'.redoStack = <<>> /\ history.redoStack = <<>>)
                  => Last(history'.undoStack).before = captureSnapshot(doc)
     /\ Len(history'.undoStack) = Len(history.undoStack) - 1
          => /\ captureSnapshot(doc') = Last(history.undoStack).before
             /\ history'.redoStack = Append(history.redoStack, Last(history.undoStack))
     /\ (Len(history'.redoStack) = Len(history.redoStack) - 1
           /\ history'.undoStack = Append(history.undoStack, Last(history.redoStack)))
          => captureSnapshot(doc') = Last(history.redoStack).after]_vars

C8_Witness ==
  /\ history.redoStack # <<>>
  /\ captureSnapshot(doc) = Last(history.redoStack).before
  /\ Last(history.redoStack).before.layers # Last(history.redoStack).after.layers
  /\ Len(doc.layers) > 0

\* C9: doc.activeLayerId is null or the id of a layer in doc.layers.
C9_ActiveLayerValid ==
  doc.activeLayerId = NoLayer \/ doc.activeLayerId \in LayerIds(doc)

\* the last committed edit deleted the layer that was active
C9_Witness ==
  /\ history.undoStack # <<>>
  /\ Last(history.undoStack).after = captureSnapshot(doc)
  /\ Last(history.undoStack).before.activeLayerId # NoLayer
  /\ Last(history.undoStack).before.activeLayerId \notin LayerIds(doc)
  /\ doc.activeLayerId \in LayerIds(doc)

ParamValid(param) ==
  /\ param.type \in {"float", "int"} => (param.min <= param.value.n /\ param.value.n <= param.max)
  /\ param.type = "select" => \E i \in 1..Len(param.options) : param.options[i] = param.value.s

C11_DisabledIsPassthrough ==
  callEffects # <<>> => \E i \in 1..Len(callEffects) : callEffects[i].enabled

(***************************************************************************)
(* C12: the draw calls of one process() call are those of its enabled      *)
(* effects in stack order, each effect's passes in their declared order    *)
(* and all of them before any pass of a later effect; a disabled effect    *)
(* contributes none.                                                       *)
(***************************************************************************)
PassNames(type) ==
  CASE type = "gaussian-blur" -> <<"blurH", "blurV">>
    [] type = "bloom" -> <<"extract", "blurH", "blurV", "composite">>
    [] type \in {"vignette", "color-grading"} -> <<type>>
    [] OTHER -> <<>>

RECURSIVE ExpectedPasses(_, _)
ExpectedPasses(effects, i) ==
  IF i > Len(effects) THEN <<>>
  ELSE (IF effects[i].enabled
          THEN [k \in 1..Len(PassNames(effects[i].type)) |->
                  [effect |-> i, name |-> PassNames(effects[i].type)[k]]]
          ELSE <<>>) \o ExpectedPasses(effects, i + 1)

C12_PassOrder ==
  LET expected == ExpectedPasses(callEffects, 1)
  IN  /\ Len(passLog) <= Len(expected)
      /\ passLog = SubSeq(expected, 1, Len(passLog))
      /\ pc = "idle" => passLog = expected

C12_Witness ==
  /\ pc = "idle"
  /\ returnedObject = "canvas"
  /\ Len(callEffects) = 2
  /\ ~callEffects[1].enabled
  /\ callEffects[2].enabled
  /\ Len(passLog) = 4

(***************************************************************************)
(* C13: the image a process() call returned is not changed by a later      *)
(* process() call: when the earlier call returned the renderer's canvas,   *)
(* that canvas still shows what it showed when it was returned.            *)
(***************************************************************************)
C13_ResultKept ==
  earlier.object = "canvas" => canvas = earlier.content

(***************************************************************************)
(* C16: whatever the sequence of process() sizes, the renderer holds two   *)
(* ping-pong textures and two framebuffers: a change of resolution leaves  *)
(* none of the earlier ones allocated.                                     *)
(***************************************************************************)
C16_TwoTargets ==
  Len(texData) <= 2

(***************************************************************************)
(* C14: the per-layer result cache holds at most one entry per layer id:   *)
(* a result stored under a new key replaces the layer's previous entry in  *)
(* the same step, so two entries of one layer never coexist.               *)
(***************************************************************************)
C14_OneEntryPerLayer ==
  \A e1 \in cache : \A e2 \in cache : e1.layer = e2.layer => e1 = e2

C14_Witness ==
  \E e \in cache : e.layer \in engineRuns /\ Len(e.image.applied) = 2

(***************************************************************************)
(* C15: cloning an effect list does not change what generateCacheKey       *)
(* computes from it, and a layer that went through captureSnapshot and     *)
(* restoreSnapshot (undo, redo) has the cache key it had when captured.    *)
(***************************************************************************)
C15_CloneKeepsKey ==
  /\ \A a \in StacksInState :
        generateCacheKey(1, cloneLayerEffects(a)) = generateCacheKey(1, a)
  /\ \A i \in 1..Len(doc.layers) :
        LET restored == restoreSnapshot(doc, captureSnapshot(doc)).layers[i]
        IN  generateCacheKey(restored.id, restored.effects)
              = generateCacheKey(doc.layers[i].id, doc.layers[i].effects)

C15_Witness ==
  /\ history.redoStack # <<>>
  /\ \E i \in 1..Len(doc.layers) :
        \E j \in 1..Len(doc.layers[i].effects) : ~doc.layers[i].effects[j].enabled

(***************************************************************************)
(* C17: a burst of onUpdateParam calls, each arriving while the timer of   *)
(* the previous one is pending, pushes nothing while it lasts and at most  *)
(* one history entry when the last timer fires: exactly one, from the      *)
(* snapshot taken before the first update to the document at firing time,  *)
(* when these two differ, and none when the burst ended where it began.    *)
(***************************************************************************)
BurstUpdateStep == burstUpdates' = burstUpdates + 1

BurstEndStep == burstUpdates > 0 /\ burstUpdates' = 0

C17_BurstCommitsOnce ==
  [][/\ BurstUpdateStep =>
          /\ history' = history
          /\ paramCommitTimer'
          /\ effectParamBefore' = (IF burstUpdates = 0 THEN <<captureSnapshot(doc)>>
                                                      ELSE effectParamBefore)
     /\ (burstUpdates' = burstUpdates /\ paramCommitTimer) =>
          effectParamBefore' = effectParamBefore
     /\ BurstEndStep =>
          /\ doc' = doc
          /\ history' =
               (IF snapshotsEqual(effectParamBefore[1], captureSnapshot(doc))
                  THEN history
                  ELSE [undoStack |-> Append(history.undoStack,
                                             [before |-> effectParamBefore[1],
                                              after |-> captureSnapshot(doc)]),
                        redoStack |-> <<>>])]_vars

\* two updates into a burst that changed the document: nothing pushed yet
C17_Witness ==
  /\ burstUpdates = 2
  /\ paramCommitTimer
  /\ Len(history.undoStack) = 2
  /\ ~snapshotsEqual(effectParamBefore[1], captureSnapshot(doc))

\* C17 as stated: every burst ends with exactly one entry being pushed
C17_ExactlyOneEntry ==
  [][BurstEndStep =>
       history'.undoStack = Append(history.undoStack,
                                   [before |-> effectParamBefore[1],
                                    after |-> captureSnapshot(doc)])]_vars

(***************************************************************************)
(* C18: a change whose resulting snapshot is structurally equal to the     *)
(* before-snapshot pushes no history entry and leaves both stacks alone:   *)
(* no step leaves an entry whose before equals its after in either stack,  *)
(* and a step that starts with no before-snapshot pending and leaves the   *)
(* document structurally as it was changes the stacks only if it is an     *)
(* undo or a redo.                                                         *)
(***************************************************************************)
NoOpEntries(stack) ==
  {i \in 1..Len(stack) : snapshotsEqual(stack[i].before, stack[i].after)}

C18_NoOpPushesNothing ==
  [][/\ NoOpEntries(history'.undoStack) = {}
     /\ NoOpEntries(history'.redoStack) = {}
     /\ (/\ effectParamBefore = <<>>
         /\ dragHistoryBefore = <<>>
         /\ snapshotsEqual(captureSnapshot(doc), captureSnapshot(doc')))
          => history' \in {history, HistoryUndo(history).history,
                           HistoryRedo(history).history}]_vars

\* import, mouse down on the active layer, mouse up where it went down:
\* three events handled, the import still the only entry
C18_Witness ==
  /\ ops = 3
  /\ dragStart # <<0, 0>>
  /\ dragMode = ""
  /\ dragHistoryBefore = <<>>
  /\ Len(history.undoStack) = 1
  /\ history.redoStack = <<>>

(***************************************************************************)
(* C19: changing a param value of a LayerEffect that createLayerEffect     *)
(* returned, an element of a color triple included, changes neither the    *)
(* definition's default params nor the params of another instance: after   *)
(* every step the definition's params hold the registered defaults, and no *)
(* step changes the params of two created instances.                       *)
(***************************************************************************)
StoreAfter == [arrays |-> arrays', paramObjs |-> paramObjs', effectObjs |-> effectObjs']

C19_InstancesIndependent ==
  [][/\ \A i \in 1..Len(ObjectDefinition.params) :
          ParamValue(StoreAfter, i) = ObjectDefinition.params[i]
     /\ \A a \in created : \A b \in created \ {a} :
          EffectValue(StoreAfter, a).params # EffectValue(Store, a).params
            => EffectValue(StoreAfter, b).params = EffectValue(Store, b).params]_vars

\* two instances of the definition, one with a color element assigned, the
\* other as created
C19_Witness ==
  \E a \in created : \E b \in created \ {a} :
    /\ EffectValue(Store, b).params = ObjectDefinition.params
    /\ \E i \in 1..Len(ObjectDefinition.params) :
         /\ ObjectDefinition.params[i].type = "color"
         /\ EffectValue(Store, a).params[i].value.c[1] = 500

(***************************************************************************)
(* C20: a snapshot kept for the history is never changed by a later edit   *)
(* (param update, toggle, reorder, removal, a color element assigned),     *)
(* edits made after that snapshot was restored included: every step leaves *)
(* what each stored snapshot holds as it was.                              *)
(***************************************************************************)
C20_SnapshotsImmutable ==
  [][\A n \in 1..Len(stored) :
       EffectsValue(StoreAfter, stored[n]) = EffectsValue(Store, stored[n])]_vars

\* a snapshot was taken and restored, and the restored effect edited since:
\* the document differs from the snapshot it came from
C20_Witness ==
  /\ stored # <<>>
  /\ layerEffects # <<>>
  /\ layerEffects[1] \notin created
  /\ \A n \in 1..Len(stored) :
       EffectsValue(Store, layerEffects) # EffectsValue(Store, stored[n])

(***************************************************************************)
(* C21: an enabled instance whose type is not a known effect gets no pass, *)
(* and the pipeline goes on: no draw call belongs to such an instance, the *)
(* draw calls follow the stack order, and when the call has returned every *)
(* enabled known effect has had all its passes in their order.             *)
(***************************************************************************)
C21_UnknownSkipped ==
  /\ \A k \in 1..Len(passLog) : callEffects[passLog[k].effect].type \in KnownTypes
  /\ \A k \in 1..(Len(passLog) - 1) : passLog[k].effect <= passLog[k + 1].effect
  /\ pc = "idle" =>
       \A i \in 1..Len(callEffects) :
         (callEffects[i].enabled /\ callEffects[i].type \in KnownTypes) =>
           LET mine == SelectSeq(passLog, LAMBDA e : e.effect = i)
           IN  [k \in 1..Len(mine) |-> mine[k].name] = PassNames(callEffects[i].type)

C21_Witness ==
  /\ pc = "idle"
  /\ returnedObject = "canvas"
  /\ Len(callEffects) = 2
  /\ callEffects[1].enabled
  /\ callEffects[1].type \notin KnownTypes
  /\ callEffects[2].enabled
  /\ callEffects[2].type = "gaussian-blur"
  /\ Len(passLog) = 2

(***************************************************************************)
(* C23: a process() request with width <= 0 or height <= 0 is rejected:    *)
(* no texture or framebuffer is ever allocated for such a size and no pass *)
(* runs on it.                                                             *)
(***************************************************************************)
C23_NoTargetsForEmptySize ==
  texData # <<>> => (targetSize[1] > 0 /\ targetSize[2] > 0)

(***************************************************************************)
(* C22: a non-numeric entry in a numeric control never reaches             *)
(* onUpdateParam and never changes the stored value: no effect list of the *)
(* document, of a history snapshot or of a pending before-snapshot holds a *)
(* NaN.                                                                    *)
(***************************************************************************)
C22_NoNaNStored ==
  \A stack \in StacksInState :
    \A k \in 1..Len(stack) : \A j \in 1..Len(stack[k].params) :
      stack[k].params[j].value # NaNV

\* import, add an effect, a non-numeric entry: three events handled, no
\* redraw asked for by the last one, no commit timer armed, two entries
C22_Witness ==
  /\ ops = 3
  /\ Len(history.undoStack) = 2
  /\ ~paramCommitTimer
  /\ burstUpdates = 0
  /\ requests = {}
  /\ ActiveEffects # <<>>
  /\ ActiveEffects[1].enabled

\* C24: when a shader fails to compile or the program fails to link, apply
\* does not hand the unprocessed source back as its result.
C24_FailureNotReturnedAsSource ==
  contextFailure \in {"compile", "link"} => applied # "source"


\* the layers a draw of document d is to show: visible with opacity above 0
ShownLayerIds(d) ==
  LET shown == SelectSeq(d.layers, LAMBDA l : l.visible /\ l.opacity > 0)
  IN [i \in 1..Len(shown) |-> shown[i].id]

\* C25: the canvas holds exactly the layers that are visible with opacity
\* above 0, drawn in doc.layers order, and no hidden or fully transparent
\* layer was handed to the effect renderer.
C25_DrawsShownLayersInOrder ==
  /\ drawn = ShownLayerIds(doc)
  /\ requests \subseteq Range(ShownLayerIds(doc))


\* C26 as stated: with base = 0.5 and top = 0.5 every one of the five modes
\* yields exactly 0.5.
C26_AllYieldHalf ==
  (pixelMode # "" /\ blendBase = 500 /\ blendTop = 500) => blendResult = 500000

\* C26, amended: with base = 0.5 and top = 0.5, Normal and Overlay yield 0.5,
\* Multiply yields 0.25, Screen yields 0.75 and Difference yields 0.
C26_MidGrayBlend ==
  (pixelMode # "" /\ blendBase = 500 /\ blendTop = 500)
    => blendResult = (CASE pixelMode = "source-over" -> 500000
                        [] pixelMode = "multiply" -> 250000
                        [] pixelMode = "screen" -> 750000
                        [] pixelMode = "overlay" -> 500000
                        [] pixelMode = "difference" -> 0)

C26_Witness ==
  pixelMode = "multiply" /\ blendBase = 500 /\ blendTop = 500 /\ blendResult = 250000


\* the layer a corner drag by (dx, dy) from the origin rectangle o is to give
CornerResized(l, mode, o, dx, dy) ==
  /\ l.width >= 20 /\ l.height >= 20
  /\ IF mode = "resize-se"
       THEN /\ l.width = Max2(20, o.width + dx)
            /\ l.height = Max2(20, o.height + dy)
            /\ l.x = o.x /\ l.y = o.y
       ELSE /\ l.width = Max2(20, o.width - dx)
            /\ l.height = Max2(20, o.height - dy)
            /\ l.x + l.width = o.x + o.width
            /\ l.y + l.height = o.y + o.height

\* C27: every mouse move of a drag that began on the se or the nw handle
\* leaves the layer with the opposite corner where it was at mouse down and
\* with width and height changed by the drag delta, never below 20.
C27_CornerDragResizes ==
  [][(/\ dragMode \in {"resize-se", "resize-nw"}
      /\ UNCHANGED <<history, dragMode, dragLayerId, dragOrigin, dragStart>>
      /\ LayerIndex(doc, dragLayerId) # 0
      /\ doc' # doc)
     => \E point \in CanvasPoints :
          /\ LayerIndex(doc', dragLayerId) # 0
          /\ CornerResized(doc'.layers[LayerIndex(doc', dragLayerId)], dragMode, dragOrigin,
                           point[1] - dragStart[1], point[2] - dragStart[2])]_vars

\* a nw drag has moved the layer's top-left corner and its width is at the minimum
C27_Witness ==
  /\ dragMode = "resize-nw"
  /\ LayerIndex(doc, dragLayerId) # 0
  /\ doc.layers[LayerIndex(doc, dragLayerId)].width = 20
  /\ doc.layers[LayerIndex(doc, dragLayerId)].x = dragOrigin.x + dragOrigin.width - 20
  /\ doc.layers[LayerIndex(doc, dragLayerId)].x # dragOrigin.x


EditEntry == [before |-> captureSnapshot(doc), after |-> captureSnapshot(doc)]

\* C29: a push onto the history of any reachable state leaves canRedo false
\* and canUndo true; undo with an empty undo stack and redo with an empty redo
\* stack return null and leave both stacks as they were; and every step of
\* the application that changes the history and is neither an undo nor a
\* redo ends with canRedo false and canUndo true.
C29_PushClearsRedo ==
  /\ [](/\ ~canRedo(HistoryPush(history, EditEntry))
        /\ canUndo(HistoryPush(history, EditEntry))
        /\ ~canUndo(history)
             => HistoryUndo(history) = [history |-> history, result |-> <<>>]
        /\ ~canRedo(history)
             => HistoryRedo(history) = [history |-> history, result |-> <<>>])
  /\ [][(history' # history /\ ~undo /\ ~redo)
          => (~canRedo(history') /\ canUndo(history'))]_vars

\* the first import was undone and a second image imported: the push of the
\* second import has discarded the redoable first one
C29_Witness ==
  /\ Len(doc.layers) = 1
  /\ doc.layers[1].id = 2
  /\ Len(history.undoStack) = 1
  /\ ~canRedo(history)


\* the ids deleteLayer is called with: every id handed out so far and the next
DeleteIds == 1..nextId

\* d2 is d without the layer id: the other layers, unchanged and in d's order
RemainingInOrder(d, d2, id) ==
  /\ LayerIds(d2) = LayerIds(d) \ {id}
  /\ Len(d2.layers) = Cardinality(LayerIds(d2))
  /\ \A i \in 1..Len(d2.layers) :
        d2.layers[i] = d.layers[LayerIndex(d, d2.layers[i].id)]
  /\ \A i \in 1..Len(d2.layers) : \A j \in (i + 1)..Len(d2.layers) :
        LayerIndex(d, d2.layers[i].id) < LayerIndex(d, d2.layers[j].id)

\* d2 is what deleting layer id from d is to give
Deleted(d, d2, id) ==
  /\ RemainingInOrder(d, d2, id)
  /\ d2.activeLayerId =
       (IF d.activeLayerId # id THEN d.activeLayerId
        ELSE IF d2.layers = <<>> THEN NoLayer
        ELSE d2.layers[Len(d2.layers)].id)

====
